---- MODULE Spec2Model ----
(***************************************************************************)
(* A model of the anyclaude protocol translation engine: the History       *)
(* Normalizer (filterDuplicateToolCalls and validateToolCallConsistency of *)
(* filter-duplicates.ts) and the /v1/messages handler of                   *)
(* createAnthropicProxy that calls it.                                     *)
(*                                                                         *)
(* Indices are 1-based here (TLA+ sequences) where the source is 0-based;  *)
(* the source's position key `${msgIndex}:${contentIndex}` is an injective *)
(* encoding of the pair and is modelled as the pair <<msgIndex,            *)
(* contentIndex>>.  Console logging is not modelled.                       *)
(***************************************************************************)
EXTENDS Naturals, Sequences, FiniteSets, TLC

\* ------------------------------------------------------------------------
\* Bounds of the model.
\* ------------------------------------------------------------------------
\* Largest number of messages of a conversation.
MaxMessages == 2
\* Largest number of content items of a conversation (over all messages).
MaxItems == 4

\* Largest number of messages and of content items of the conversation of a
\* proxied request.
MaxRequestMessages == 1
MaxRequestItems == 2
\* Largest number of chunks of the backend stream of a streamed request.
MaxBackendEvents == 2
MaxEvents == 3
MaxStepEvents == 6
MaxSchemaNodes == 4
\* Largest number of chunks of the backend stream of one of two concurrent
\* requests.
MaxPairEvents == 3

\* The tool-call ids that occur in conversations.
Ids == {"x", "y"}

\* ------------------------------------------------------------------------
\* Conversations: AnthropicMessage[].
\* ------------------------------------------------------------------------
TextItem == [type |-> "text"]
ToolUse(id) == [type |-> "tool_use", id |-> id]
ToolResult(id) == [type |-> "tool_result", tool_use_id |-> id]

\* A message: role, whether content is an array (Array.isArray) or a plain
\* string, and the content items (empty for a string content).
ArrayMessage(role, content) == [role |-> role, isArray |-> TRUE, content |-> content]
StringMessage(role) == [role |-> role, isArray |-> FALSE, content |-> <<>>]

\* The shapes of a message, and what a content item can be: a text, or the
\* record of a tool call with one of the ids (a tool_use in an assistant
\* message, a tool_result in a user message).
MessageKinds == [role : {"user", "assistant"}, isArray : BOOLEAN]
ItemChoices == {"text"} \cup Ids

ItemOf(role, choice) ==
    IF choice = "text" THEN TextItem
    ELSE IF role = "assistant" THEN ToolUse(choice)
    ELSE ToolResult(choice)

RECURSIVE SumTo(_, _)
\* lens[1] + ... + lens[n]
SumTo(lens, n) == IF n = 0 THEN 0 ELSE lens[n] + SumTo(lens, n - 1)

\* The conversation whose i-th message has kind kinds[i] and lens[i] content
\* items, its items being given, in order, by the choices.
BuildConversation(kinds, lens, choices) ==
    [i \in DOMAIN kinds |->
        IF kinds[i].isArray
        THEN ArrayMessage(kinds[i].role,
                 [c \in 1..lens[i] |-> ItemOf(kinds[i].role, choices[SumTo(lens, i - 1) + c])])
        ELSE StringMessage(kinds[i].role)]

\* messages is a conversation of at most maxMessages messages and at most
\* maxItems content items.
ConversationWithin(messages, maxMessages, maxItems) ==
    \E n \in 0..maxMessages :
      \E kinds \in [1..n -> MessageKinds], lens \in [1..n -> 0..maxItems] :
        /\ SumTo(lens, n) <= maxItems
        /\ \A i \in 1..n : ~kinds[i].isArray => lens[i] = 0
        /\ \E choices \in [1..SumTo(lens, n) -> ItemChoices] :
             messages = BuildConversation(kinds, lens, choices)

IsInputConversation(messages) == ConversationWithin(messages, MaxMessages, MaxItems)

\* ------------------------------------------------------------------------
\* filterDuplicateToolCalls, steps 1 and 2: the two scans.
\* ------------------------------------------------------------------------
RECURSIVE AllPositions(_, _)
\* The positions <<msgIndex, contentIndex>> of a conversation in the order
\* messages.forEach / msg.content.forEach visit them, from message m on.
AllPositions(messages, m) ==
    IF m > Len(messages) THEN <<>>
    ELSE [c \in 1..Len(messages[m].content) |-> <<m, c>>] \o AllPositions(messages, m + 1)

\* The state of a scan: the first-occurrence map and the duplicate set.
EmptyScan == [first |-> <<>>, dups |-> {}]

\* ScanToolUse forgetting to record the duplicate.
ScanToolUse_DuplicateNotRecorded(acc, messages, pos) ==
    LET msg == messages[pos[1]]
        item == msg.content[pos[2]]
    IN IF msg.role = "assistant" /\ msg.isArray /\ item.type = "tool_use"
       THEN IF item.id \in DOMAIN acc.first
            THEN acc
            ELSE [acc EXCEPT !.first = @ @@ (item.id :> pos)]
       ELSE acc

\* ScanToolUse keeping the last occurrence instead of the first.
ScanToolUse_KeepLast(acc, messages, pos) ==
    LET msg == messages[pos[1]]
        item == msg.content[pos[2]]
    IN IF msg.role = "assistant" /\ msg.isArray /\ item.type = "tool_use"
       THEN IF item.id \in DOMAIN acc.first
            THEN [first |-> [acc.first EXCEPT ![item.id] = pos],
                  dups |-> acc.dups \cup {acc.first[item.id]}]
            ELSE [acc EXCEPT !.first = @ @@ (item.id :> pos)]
       ELSE acc

\* The body of the step-1 forEach at one position.
ScanToolUse(acc, messages, pos) ==
    LET msg == messages[pos[1]]
        item == msg.content[pos[2]]
    IN IF msg.role = "assistant" /\ msg.isArray /\ item.type = "tool_use"
       THEN IF item.id \in DOMAIN acc.first
            THEN [acc EXCEPT !.dups = @ \cup {pos}]
            ELSE [acc EXCEPT !.first = @ @@ (item.id :> pos)]
       ELSE acc

\* ScanToolResult forgetting to record the duplicate.
ScanToolResult_DuplicateNotRecorded(acc, messages, pos) ==
    LET msg == messages[pos[1]]
        item == msg.content[pos[2]]
    IN IF msg.role = "user" /\ msg.isArray /\ item.type = "tool_result"
       THEN IF item.tool_use_id \in DOMAIN acc.first
            THEN acc
            ELSE [acc EXCEPT !.first = @ @@ (item.tool_use_id :> pos)]
       ELSE acc

\* The body of the step-2 forEach at one position.
ScanToolResult(acc, messages, pos) ==
    LET msg == messages[pos[1]]
        item == msg.content[pos[2]]
    IN IF msg.role = "user" /\ msg.isArray /\ item.type = "tool_result"
       THEN IF item.tool_use_id \in DOMAIN acc.first
            THEN [acc EXCEPT !.dups = @ \cup {pos}]
            ELSE [acc EXCEPT !.first = @ @@ (item.tool_use_id :> pos)]
       ELSE acc

RECURSIVE ScanToolUses(_, _, _)
ScanToolUses(acc, messages, positions) ==
    IF positions = <<>> THEN acc
    ELSE ScanToolUses(ScanToolUse(acc, messages, Head(positions)), messages, Tail(positions))

RECURSIVE ScanToolResults(_, _, _)
ScanToolResults(acc, messages, positions) ==
    IF positions = <<>> THEN acc
    ELSE ScanToolResults(ScanToolResult(acc, messages, Head(positions)), messages, Tail(positions))

toolCallFirstOccurrence(messages) ==
    ScanToolUses(EmptyScan, messages, AllPositions(messages, 1)).first
duplicateOccurrences(messages) ==
    ScanToolUses(EmptyScan, messages, AllPositions(messages, 1)).dups
toolResultFirstOccurrence(messages) ==
    ScanToolResults(EmptyScan, messages, AllPositions(messages, 1)).first
duplicateResults(messages) ==
    ScanToolResults(EmptyScan, messages, AllPositions(messages, 1)).dups

\* ------------------------------------------------------------------------
\* filterDuplicateToolCalls, step 3: filter the messages.
\* ------------------------------------------------------------------------
RECURSIVE FilterContent_Reversed(_, _, _, _)
\* FilterContent collecting the kept items in reverse.
FilterContent_Reversed(content, msgIndex, removed, c) ==
    IF c > Len(content) THEN <<>>
    ELSE FilterContent_Reversed(content, msgIndex, removed, c + 1)
           \o (IF <<msgIndex, c>> \in removed THEN <<>> ELSE <<content[c]>>)

RECURSIVE FilterContent_OffByOne(_, _, _, _)
\* FilterContent looking up the key of the next content index.
FilterContent_OffByOne(content, msgIndex, removed, c) ==
    IF c > Len(content) THEN <<>>
    ELSE (IF <<msgIndex, c + 1>> \in removed THEN <<>> ELSE <<content[c]>>)
           \o FilterContent_OffByOne(content, msgIndex, removed, c + 1)

RECURSIVE FilterContent(_, _, _, _)
\* msg.content.filter((item, contentIndex) => !removed.has(key)), from
\* content index c on.
FilterContent(content, msgIndex, removed, c) ==
    IF c > Len(content) THEN <<>>
    ELSE (IF <<msgIndex, c>> \in removed THEN <<>> ELSE <<content[c]>>)
           \o FilterContent(content, msgIndex, removed, c + 1)

\* The callback of messages.map: a copy with the filtered content when an
\* item was removed, the message itself otherwise.
FilterMessage(messages, msgIndex, dupCalls, dupResults) ==
    LET msg == messages[msgIndex]
    IN IF msg.role = "assistant" /\ msg.isArray
       THEN LET filteredContent == FilterContent(msg.content, msgIndex, dupCalls, 1)
            IN IF Len(filteredContent) # Len(msg.content)
               THEN [msg EXCEPT !.content = filteredContent]
               ELSE msg
       ELSE IF msg.role = "user" /\ msg.isArray
       THEN LET filteredContent == FilterContent(msg.content, msgIndex, dupResults, 1)
            IN IF Len(filteredContent) # Len(msg.content)
               THEN [msg EXCEPT !.content = filteredContent]
               ELSE msg
       ELSE msg

filteredMessages(messages) ==
    [msgIndex \in 1..Len(messages) |->
        FilterMessage(messages, msgIndex, duplicateOccurrences(messages),
                      duplicateResults(messages))]

\* ------------------------------------------------------------------------
\* validateToolCallConsistency.
\* ------------------------------------------------------------------------
\* The ids one message pushes on toolCallOrder.
MessageToolCalls(msg) ==
    IF msg.role = "assistant" /\ msg.isArray
    THEN LET uses == SelectSeq(msg.content, LAMBDA item : item.type = "tool_use")
         IN [k \in 1..Len(uses) |-> uses[k].id]
    ELSE <<>>

\* The ids one message pushes on toolResultOrder.
MessageToolResults(msg) ==
    IF msg.role = "assistant" /\ msg.isArray
    THEN <<>>
    ELSE IF msg.role = "user" /\ msg.isArray
    THEN LET results == SelectSeq(msg.content, LAMBDA item : item.type = "tool_result")
         IN [k \in 1..Len(results) |-> results[k].tool_use_id]
    ELSE <<>>

RECURSIVE toolCallOrder(_)
toolCallOrder(messages) ==
    IF messages = <<>> THEN <<>>
    ELSE MessageToolCalls(Head(messages)) \o toolCallOrder(Tail(messages))

RECURSIVE toolResultOrder(_)
toolResultOrder(messages) ==
    IF messages = <<>> THEN <<>>
    ELSE MessageToolResults(Head(messages)) \o toolResultOrder(Tail(messages))

\* The elements of a sequence as a set.
Range(s) == {s[k] : k \in DOMAIN s}

RECURSIVE InsertionOrder(_)
\* What iterating a JavaScript Set yields after adding the elements of s in
\* order: each element once, at its first insertion.
InsertionOrder(s) ==
    IF s = <<>> THEN <<>>
    ELSE LET init == InsertionOrder(SubSeq(s, 1, Len(s) - 1))
             last == s[Len(s)]
         IN IF last \in Range(init) THEN init ELSE Append(init, last)

validateToolCallConsistency(messages) ==
    LET callOrder == toolCallOrder(messages)
        resultOrder == toolResultOrder(messages)
        toolCalls == Range(callOrder)
        toolResults == Range(resultOrder)
        commonIds == SelectSeq(callOrder, LAMBDA id : id \in toolResults)
        resultOrderForCommon == SelectSeq(resultOrder, LAMBDA id : id \in toolCalls)
    IN [toolCalls |-> toolCalls,
        toolResults |-> toolResults,
        orphanedResults |->
            SelectSeq(InsertionOrder(resultOrder), LAMBDA id : id \notin toolCalls),
        callsWithoutResults |->
            SelectSeq(InsertionOrder(callOrder), LAMBDA id : id \notin toolResults),
        orderPreserved |-> (commonIds = resultOrderForCommon),
        toolCallOrder |-> callOrder,
        toolResultOrder |-> resultOrder]

\* ------------------------------------------------------------------------
\* filterDuplicateToolCalls, step 4 and the result: either the filtered
\* conversation is returned, or an Error is thrown whose message joins the
\* orphaned ids (errorIds).
\* ------------------------------------------------------------------------
Returned(value) == [threw |-> FALSE, value |-> value, errorIds |-> <<>>]
Threw(ids) == [threw |-> TRUE, value |-> <<>>, errorIds |-> ids]

\* filterDuplicateToolCalls without the throw.
filterDuplicateToolCalls_NeverThrows(messages) ==
    Returned(filteredMessages(messages))

\* filterDuplicateToolCalls treating an order mismatch as fatal too.
filterDuplicateToolCalls_ThrowsOnOrder(messages) ==
    LET filtered == filteredMessages(messages)
        validation == validateToolCallConsistency(filtered)
    IN IF Len(validation.orphanedResults) > 0 \/ ~validation.orderPreserved
       THEN Threw(validation.orphanedResults)
       ELSE Returned(filtered)

filterDuplicateToolCalls(messages) ==
    LET filtered == filteredMessages(messages)
        validation == validateToolCallConsistency(filtered)
    IN IF Len(validation.orphanedResults) > 0
       THEN Threw(validation.orphanedResults)
       ELSE Returned(filtered)

\* No call made yet.
NotCalled == [threw |-> FALSE, value |-> <<>>, errorIds |-> <<>>]

\* ------------------------------------------------------------------------
\* The /v1/messages handler of createAnthropicProxy: requests.
\* ------------------------------------------------------------------------
\* A model identifier is a sequence of tokens, each a name or the separator
\* "/", no two names adjacent.
ModelIds ==
    {<<"m">>, <<"openai", "/", "m">>, <<"bogus", "/", "m">>,
     <<"openai", "/", "a", "/", "b">>}

RECURSIVE Split(_)
\* body.model.split("/")
Split(model) ==
    IF model = <<>> THEN <<"">>
    ELSE LET rest == Split(Tail(model))
         IN IF Head(model) = "/" THEN <<"">> \o rest
            ELSE <<Head(model)>> \o Tail(rest)

\* The providers main.ts always configures, and the one it configures when
\* ANTHROPIC_API_KEY is set.
BaseProviders == {"openai", "azure", "google", "xai"}
ProviderSets == {BaseProviders, BaseProviders \cup {"anthropic"}}

NoBody == [model |-> <<>>, messages |-> <<>>, stream |-> FALSE]
\* No JSON message in the body of the response.
NoMessage ==
    [type |-> "none", role |-> "none", model |-> <<>>,
     stop_reason |-> "none", stop_sequence |-> "none"]

\* Nothing written to the response yet.
NoResponse ==
    [statusCode |-> 0, body |-> "none", frames |-> 0, ended |-> FALSE,
     json |-> NoMessage]

\* The text of a JSON document: the value it denotes and the white space
\* between its tokens.
JsonTexts(value) == {[value |-> value, spaces |-> spaces] : spaces \in {<<>>, <<" ">>}}

\* JSON.parse(text)
Parse(text) == text.value

\* JSON.stringify(value): the text of the value, with no white space.
Stringify(value) == [value |-> value, spaces |-> <<>>]

\* The length of a text, as far as the texts of the bodies differ in it.
Length(text) == Len(text.value.model) + Len(text.value.messages) + Len(text.spaces)

\* A POST of the text to /v1/messages.
Request(text) ==
    [method |-> "POST", url |-> "/v1/messages",
     headers |-> [host |-> "localhost", contentLength |-> Length(text)],
     body |-> text]

\* No request.
NoRequest ==
    [method |-> "none", url |-> "none",
     headers |-> [host |-> "none", contentLength |-> 0],
     body |-> [value |-> NoBody, spaces |-> <<>>]]

\* proxiedRes.statusCode is undefined.
NoStatus == 0

\* What the vendor answers to a forwarded request.
VendorResponses ==
    [statusCode : {NoStatus, 200, 400, 429, 529}, headers : {"vendor headers"},
     body : {"vendor body"}]

\* Nothing received from the vendor.
NoVendorResponse == [statusCode |-> NoStatus, headers |-> "none", body |-> "none"]

\* proxyToAnthropic has not been called.
NotForwarded ==
    [host |-> "none", path |-> "none", method |-> "none",
     headers |-> [contentLength |-> 0],
     body |-> [value |-> NoBody, spaces |-> <<>>],
     relayed |-> NoVendorResponse]

\* provider.languageModel has not been called.
NoLanguageModel == [provider |-> "none", model |-> <<>>]

\* What can happen to the two writes of writeDebugToTempFile.
FsOutcomes == {"written", "writeFileSync throws", "appendFileSync throws"}

\* writeDebugToTempFile that lets the exceptions of fs through.
writeDebugToTempFile_NoCatch(statusCode, enabled, fs) ==
    IF ~enabled \/ statusCode = 429 \/ statusCode < 400 \/ statusCode >= 500
    THEN [file |-> "null", attempted |-> FALSE, written |-> FALSE, threw |-> FALSE]
    ELSE [file |-> IF fs = "written" THEN "path" ELSE "null",
          attempted |-> TRUE,
          written |-> fs # "writeFileSync throws",
          threw |-> fs # "written"]

\* writeDebugToTempFile(statusCode, request, response): the path of the
\* file or null, whether the record got as far as fs, whether the debug
\* file has been written, and whether the call threw.
writeDebugToTempFile(statusCode, enabled, fs) ==
    IF ~enabled \/ statusCode = 429 \/ statusCode < 400 \/ statusCode >= 500
    THEN [file |-> "null", attempted |-> FALSE, written |-> FALSE, threw |-> FALSE]
    ELSE [file |-> IF fs = "written" THEN "path" ELSE "null",
          attempted |-> TRUE,
          written |-> fs # "writeFileSync throws",
          threw |-> FALSE]

\* writeDebugToTempFile is not called.
NoDebug == [file |-> "null", attempted |-> FALSE, written |-> FALSE, threw |-> FALSE]

\* The records handed to fs after a call of writeDebugToTempFile with the
\* outcome.
Logged(files, outcome, type, statusCode) ==
    IF outcome.attempted
    THEN Append(files, [type |-> type, statusCode |-> statusCode,
                        written |-> outcome.written])
    ELSE files

\* ------------------------------------------------------------------------
\* convertToAnthropicStream: the generation events of the backend stream and
\* the wire chunks transform() enqueues for them.
\* ------------------------------------------------------------------------
\* The chunk types transform() breaks on without enqueuing anything.
IgnoredTypes ==
    {"start", "abort", "raw", "source", "file",
     "reasoning-start", "reasoning-delta", "reasoning-end"}

\* The chunk types transform() has a case for that enqueues something.
HandledTypes ==
    {"start-step", "finish-step", "finish", "text-start", "text-delta",
     "text-end", "tool-input-start", "tool-input-delta", "tool-input-end",
     "tool-call", "error"}

\* Chunk types of the backend stream that transform() has no case for.
UnhandledTypes == {"tool-result"}

\* A string of the program as a value.
String(s) == [kind |-> "string", string |-> s]

\* The values of chunk.error: an Error instance, a string, and objects that
\* are not Error instances, such as the error event of a backend.
ErrorValues ==
    {[kind |-> "Error", message |-> "boom"],
     String("oops"),
     [kind |-> "object", error |-> [code |-> "server_error"]],
     [kind |-> "object", error |-> [code |-> "invalid_request"]]}

\* chunk.usage of a finish-step: each counter is a number or is missing.
UsageValues == {[inputTokens |-> 3, outputTokens |-> 5], [outputTokens |-> 5]}

\* The chunks the backend stream can carry.
GenerationEvents ==
    {[type |-> t] : t \in {"start-step", "finish", "text-start", "text-end",
                           "tool-input-end"} \cup IgnoredTypes \cup UnhandledTypes}
    \cup {[type |-> "finish-step", finishReason |-> "stop", usage |-> u] :
             u \in UsageValues}
    \cup {[type |-> "text-delta", text |-> "hi"]}
    \cup {[type |-> "tool-input-start", id |-> "call_1", toolName |-> "f"]}
    \cup {[type |-> "tool-input-delta", delta |-> "{\"a\":"]}
    \cup {[type |-> "tool-call", toolCallId |-> "call_1", toolName |-> "f",
           input |-> "{\"a\":1}"]}
    \cup {[type |-> "error", error |-> e] : e \in ErrorValues}

\* mapAnthropicStopReason of anthropic-api-types: the finish reason of the
\* backend mapped to a stop reason, left uninterpreted.
mapAnthropicStopReason(finishReason) == [mapped |-> finishReason]

\* x ?? 0 of a counter of chunk.usage
OrZero(usage, field) ==
    IF field \in DOMAIN usage THEN usage[field] ELSE 0

\* chunk.error instanceof Error ? chunk.error.message : chunk.error
ErrorMessage(error) ==
    IF error.kind = "Error" THEN String(error.message) ELSE error

\* The chunks one call of transform() hands to controller.enqueue, in order.
enqueue(chunk, idx) ==
    CASE chunk.type = "start-step" ->
           <<[type |-> "message_start",
              message |-> [id |-> "msg_", role |-> "assistant",
                           content |-> <<>>,
                           model |-> "claude-4-sonnet-20250514",
                           stop_reason |-> "null", stop_sequence |-> "null",
                           usage |-> [input_tokens |-> 0, output_tokens |-> 0]]]>>
      [] chunk.type = "finish-step" ->
           <<[type |-> "message_delta",
              delta |-> [stop_reason |-> mapAnthropicStopReason(chunk.finishReason),
                         stop_sequence |-> "null"],
              usage |-> [input_tokens |-> OrZero(chunk.usage, "inputTokens"),
                         output_tokens |-> OrZero(chunk.usage, "outputTokens")]]>>
      [] chunk.type = "finish" ->
           <<[type |-> "message_stop"]>>
      [] chunk.type = "text-start" ->
           <<[type |-> "content_block_start", index |-> idx,
              content_block |-> [type |-> "text", text |-> ""]]>>
      [] chunk.type = "text-delta" ->
           <<[type |-> "content_block_delta", index |-> idx,
              delta |-> [type |-> "text_delta", text |-> chunk.text]]>>
      [] chunk.type = "text-end" ->
           <<[type |-> "content_block_stop", index |-> idx]>>
      [] chunk.type = "tool-input-start" ->
           <<[type |-> "content_block_start", index |-> idx,
              content_block |-> [type |-> "tool_use", id |-> chunk.id,
                                 name |-> chunk.toolName, input |-> "{}"]]>>
      [] chunk.type = "tool-input-delta" ->
           <<[type |-> "content_block_delta", index |-> idx,
              delta |-> [type |-> "input_json_delta",
                         partial_json |-> chunk.delta]]>>
      [] chunk.type = "tool-input-end" ->
           <<[type |-> "content_block_stop", index |-> idx]>>
      [] chunk.type = "tool-call" ->
           <<[type |-> "content_block_start", index |-> idx,
              content_block |-> [type |-> "tool_use", id |-> chunk.toolCallId,
                                 name |-> chunk.toolName, input |-> chunk.input]],
             [type |-> "content_block_stop", index |-> idx]>>
      [] chunk.type = "error" ->
           <<[type |-> "error",
              error |-> [type |-> "api_error",
                         message |-> ErrorMessage(chunk.error)]]>>
      [] OTHER -> <<>>

\* indexAfter never advancing index.
indexAfter_NoIncrement(chunk, idx) ==
    IF chunk.type = "finish" THEN 0 ELSE idx

\* indexAfter keeping index over a finish.
indexAfter_NoReset(chunk, idx) ==
    IF chunk.type \in {"text-end", "tool-input-end", "tool-call"}
    THEN idx + 1 ELSE idx

\* indexAfter advancing index at a delta as well.
indexAfter_DeltaAdvances(chunk, idx) ==
    CASE chunk.type = "finish" -> 0
      [] chunk.type \in {"text-end", "tool-input-end", "tool-call",
                         "text-delta", "tool-input-delta"} -> idx + 1
      [] OTHER -> idx

\* The value one call of transform() leaves in index.
indexAfter(chunk, idx) ==
    CASE chunk.type = "finish" -> 0
      [] chunk.type \in {"text-end", "tool-input-end", "tool-call"} -> idx + 1
      [] OTHER -> idx

\* The switch breaking on every chunk type it has no case for.
unhandled_Never(chunk) == FALSE

\* The default case of the switch: controller.error(new Error(`Unhandled
\* chunk type: ...`)).
unhandled(chunk) == chunk.type \notin HandledTypes \cup IgnoredTypes

\* transform() enqueuing, for a tool-call, the content_block_start alone.
transform_ToolCallLeftOpen(chunk, idx) ==
    [enqueued |-> IF chunk.type = "tool-call"
                  THEN <<enqueue(chunk, idx)[1]>> ELSE enqueue(chunk, idx),
     index |-> indexAfter(chunk, idx),
     failed |-> unhandled(chunk)]

\* What one call of transform() does: the chunks it enqueues, the value it
\* leaves in index, and whether it calls controller.error.
transform(chunk, idx) ==
    [enqueued |-> enqueue(chunk, idx),
     index |-> indexAfter(chunk, idx),
     failed |-> unhandled(chunk)]

RECURSIVE convertAll(_, _)
\* The chunks convertToAnthropicStream enqueues for the chunks of a stream,
\* idx being the converter's counter when the first of them arrives; the
\* chunks after one that fails are not transformed.
convertAll(chunks, idx) ==
    IF chunks = <<>> THEN <<>>
    ELSE LET t == transform(Head(chunks), idx)
         IN IF t.failed THEN t.enqueued
            ELSE t.enqueued \o convertAll(Tail(chunks), t.index)

\* ------------------------------------------------------------------------
\* providerizeSchema: JSON schemas and their adaptation to a provider.
\* ------------------------------------------------------------------------
\* A schema is a record of the keywords it has.  properties holds the
\* entries of the properties object in the order of Object.entries; a
\* boolean schema is [bool |-> b], an items array is [tuple |-> schemas].
PropertyNames == <<"p1", "p2", "p3", "p4", "p5", "p6">>

\* No schema: null or undefined.
NoSchema == [null |-> TRUE]

Has(schema, keyword) == keyword \in DOMAIN schema

\* typeof schema === "object" && schema !== null
IsObject(schema) == ~Has(schema, "bool") /\ ~Has(schema, "null")

\* Whether a value of a keyword is truthy.
Truthy(schema) == ~Has(schema, "null") /\ (Has(schema, "bool") => schema.bool)

\* { ...schema, [keyword]: value }
With(schema, keyword, value) ==
    [k \in DOMAIN schema \cup {keyword} |->
        IF k = keyword THEN value ELSE schema[k]]

\* delete schema[keyword]
Without(schema, keyword) == [k \in DOMAIN schema \ {keyword} |-> schema[k]]

\* Object.keys(schema.properties)
Keys(properties) == [i \in 1..Len(properties) |-> properties[i].key]

\* The schemas of properties that have no schema below them.
LeafSchemas ==
    {[bool |-> TRUE],
     [type |-> "string", format |-> "uri"],
     [type |-> "object"],
     [type |-> "array",
      items |-> [tuple |-> <<[type |-> "object", properties |-> <<>>]>>]]}

\* The keywords an object schema has besides type and properties.
ObjectKeywords ==
    {[type |-> "object", required |-> <<"p1">>],
     [type |-> "object", format |-> "uri", additionalProperties |-> TRUE]}

\* The keywords an array schema has besides items.
ArrayKeywords == {[type |-> "array", format |-> "uri"]}

RECURSIVE SchemasOfSize(_), EntriesOfSize(_, _)
\* The lists of properties made of n schemas in all, named from
\* PropertyNames[first] on.
EntriesOfSize(n, first) ==
    IF n = 0 THEN {<<>>}
    ELSE UNION {{<<[key |-> PropertyNames[first], value |-> s]>> \o rest :
                    s \in SchemasOfSize(m),
                    rest \in EntriesOfSize(n - m, first + 1)} :
                m \in 1..n}

\* The schemas made of n schemas in all.
SchemasOfSize(n) ==
    IF n = 0 THEN {}
    ELSE (IF n = 1 THEN LeafSchemas ELSE {})
         \cup {With(keywords, "properties", entries) :
                  keywords \in ObjectKeywords,
                  entries \in EntriesOfSize(n - 1, 1)}
         \cup {With(keywords, "items", s) :
                  keywords \in ArrayKeywords, s \in SchemasOfSize(n - 1)}

\* The schemas of at most n schemas in all.
SchemasUpTo(n) == UNION {SchemasOfSize(m) : m \in 1..n}

\* The rule for openai keeping a required list the schema has.
Strict_KeepsRequired(schema, result) ==
    With(IF Has(schema, "required") THEN result
         ELSE With(result, "required", Keys(schema.properties)),
         "additionalProperties", FALSE)

\* The rule for openai adding the property names to the required list.
Strict_AppendsRequired(schema, result) ==
    With(With(result, "required",
              (IF Has(result, "required") THEN result.required ELSE <<>>)
                  \o Keys(schema.properties)),
         "additionalProperties", FALSE)

\* The rule for openai: result.required = Object.keys(schema.properties)
\* and result.additionalProperties = false.
Strict(schema, result) ==
    With(With(result, "required", Keys(schema.properties)),
         "additionalProperties", FALSE)

\* The property without its format when the provider is openai or google
\* and the format is "uri".
StripUri(provider, property) ==
    IF /\ provider \in {"openai", "google"}
       /\ Has(property, "format")
       /\ property.format = "uri"
    THEN Without(property, "format")
    ELSE property

RECURSIVE providerizeSchema(_, _), ProcessProperty(_, _)
\* The body of the loop over Object.entries(schema.properties): the value
\* stored in processedProperties for one property.
ProcessProperty(provider, property) ==
    IF ~IsObject(property) THEN property
    ELSE LET processedProperty == StripUri(provider, property)
         IN IF Has(processedProperty, "type") /\ processedProperty.type = "object"
            THEN providerizeSchema(provider, processedProperty)
            ELSE IF /\ Has(processedProperty, "type")
                    /\ processedProperty.type = "array"
                    /\ Has(processedProperty, "items")
                    /\ Truthy(processedProperty.items)
            THEN LET items == processedProperty.items
                 IN IF /\ IsObject(items)
                       /\ ~Has(items, "tuple")
                       /\ Has(items, "type")
                       /\ items.type = "object"
                    THEN With(processedProperty, "items",
                              providerizeSchema(provider, items))
                    ELSE processedProperty
            ELSE processedProperty

\* providerizeSchema(provider, schema)
providerizeSchema(provider, schema) ==
    IF \/ ~Truthy(schema)
       \/ ~IsObject(schema)
       \/ ~Has(schema, "type")
       \/ schema.type # "object"
       \/ ~Has(schema, "properties")
    THEN schema
    ELSE LET processedProperties ==
                 [i \in 1..Len(schema.properties) |->
                     [key |-> schema.properties[i].key,
                      value |-> ProcessProperty(provider,
                                                schema.properties[i].value)]]
             result == With(schema, "properties", processedProperties)
         IN IF provider = "openai" THEN Strict(schema, result) ELSE result

\* The property object of the input with the keywords lines 25-28 leave it
\* when the format is deleted from the property itself.
OwnAfterStrip_NoCopy(provider, property) == StripUri(provider, property)

\* The property object of the input with the keywords lines 25-28 leave it:
\* line 26 rebinds processedProperty to a copy before line 27 deletes the
\* format, so the delete does not reach the property of the input.
OwnAfterStrip(provider, property) == property

\* own with the keyword as the schema after has it, if it has it.
Graft(own, after, keyword) ==
    IF Has(after, keyword) THEN With(own, keyword, after[keyword]) ELSE own

RECURSIVE inputAfter(_, _), PropertyAfter(_, _)
\* The property object of the input as one turn of the loop over
\* Object.entries(schema.properties) leaves it.  The copy of line 26 is
\* shallow: the properties map and the items of the copy are those of the
\* property, and the recursive calls act on them.
PropertyAfter(provider, property) ==
    IF ~IsObject(property) THEN property
    ELSE LET own == OwnAfterStrip(provider, property)
             processedProperty == StripUri(provider, property)
         IN IF Has(processedProperty, "type") /\ processedProperty.type = "object"
            THEN Graft(own, inputAfter(provider, processedProperty), "properties")
            ELSE IF /\ Has(processedProperty, "type")
                    /\ processedProperty.type = "array"
                    /\ Has(processedProperty, "items")
                    /\ Truthy(processedProperty.items)
            THEN LET items == processedProperty.items
                 IN IF /\ IsObject(items)
                       /\ ~Has(items, "tuple")
                       /\ Has(items, "type")
                       /\ items.type = "object"
                    THEN With(own, "items", inputAfter(provider, items))
                    ELSE own
            ELSE own

\* The schema object handed to providerizeSchema as the call leaves it: the
\* call writes processedProperties, result.required and
\* result.additionalProperties on objects it has created, and the
\* properties of the schema are left as the loop leaves them.
inputAfter(provider, schema) ==
    IF \/ ~Truthy(schema)
       \/ ~IsObject(schema)
       \/ ~Has(schema, "type")
       \/ schema.type # "object"
       \/ ~Has(schema, "properties")
    THEN schema
    ELSE With(schema, "properties",
              [i \in 1..Len(schema.properties) |->
                  [key |-> schema.properties[i].key,
                   value |-> PropertyAfter(provider, schema.properties[i].value)]])

\* providerizeSchema has not been called.
NotAdapted == [called |-> FALSE, value |-> NoSchema, given |-> NoSchema]

\* The providers a schema is adapted for.
SchemaProviders == {"openai", "google", "xai"}

\* ------------------------------------------------------------------------
\* State.
\* ------------------------------------------------------------------------
VARIABLES
    messages,      \* the caller-supplied conversation
    pc,            \* "ready", "returned", "threw", "renormalized"
    normalized,    \* outcome of filterDuplicateToolCalls(messages)
    renormalized,  \* outcome of a second call, on the value the first returned
    providers,     \* names of the configured providers
    body,          \* the parsed request body: model, messages, stream
    handler,       \* where the handler of the request stands
    pipeline,      \* the translation stages the handler has run, in order
    coreInput,     \* the messages handed to convertFromAnthropicMessages
    res,           \* the HTTP response: status, body, SSE frames, ended
    sse,           \* the SSE frames delivered to the client, in order
    client,        \* the client connection: "connected" or "closed"
    errors,        \* the errors streamText has yet to call onError with
    stream,        \* the backend stream handed to convertToAnthropicStream
    carries,       \* the chunks the backend stream can carry
    pending,       \* how many more chunks the backend stream may carry
    consumed,      \* the chunks transform() has been called with, in order
    index,         \* the content block index of convertToAnthropicStream
    wire,          \* the chunks enqueued on transform.readable, in order
    readable,      \* transform.readable: "open", "closed" or "errored"
    readPos,       \* how many chunks of wire the reader has taken
    target,        \* the provider a tool's input_schema is adapted for
    inputSchema,   \* the input_schema of a tool
    adapted,       \* outcome of providerizeSchema(target, inputSchema)
    readapted,     \* outcome of providerizeSchema on the adapted schema
    req,           \* the HTTP request: method, url, headers, text of the body
    upstream,      \* the request proxyToAnthropic has sent to the vendor
    languageModel, \* the call provider.languageModel(model) of the handler
    debugEnabled,  \* whether ANYCLAUDE_DEBUG is set
    debugFiles,    \* the calls of writeDebugToTempFile that reached fs
    pipelines      \* the translated streams of concurrent requests

normalizerVars == <<messages, pc, normalized, renormalized>>
proxyVars == <<providers, body, handler, pipeline, coreInput, res, sse, client, errors>>
schemaVars == <<target, inputSchema, adapted, readapted>>
streamVars == <<stream, carries, pending, consumed, index, wire, readable, readPos>>
requestVars == <<req, upstream, languageModel>>
debugVars == <<debugEnabled, debugFiles>>
pairVars == <<pipelines>>
vars == <<messages, pc, normalized, renormalized,
          providers, body, handler, pipeline, coreInput, res, sse, client, errors,
          stream, carries, pending, consumed, index, wire, readable, readPos,
          target, inputSchema, adapted, readapted,
          req, upstream, languageModel, debugEnabled, debugFiles, pipelines>>

TypeOK ==
    /\ Len(messages) <= MaxMessages
    /\ pc \in {"ready", "returned", "threw", "renormalized"}
    /\ handler \in {"idle", "received", "returned", "forwarded", "backend",
                    "failed", "responded", "rejected", "relayed"}
    /\ res.frames <= 2 * MaxBackendEvents

\* No request is being served.
ProxyIdle ==
    /\ providers = {}
    /\ body = NoBody
    /\ handler = "idle"
    /\ pipeline = <<>>
    /\ coreInput = <<>>
    /\ res = NoResponse
    /\ sse = <<>>
    /\ client = "none"
    /\ errors = <<>>

\* No request has been received.
RequestIdle ==
    /\ req = NoRequest
    /\ upstream = NotForwarded
    /\ languageModel = NoLanguageModel

\* No diagnostics.
DebugIdle ==
    /\ debugEnabled = FALSE
    /\ debugFiles = <<>>

\* No concurrent requests.
PairIdle == pipelines = <<>>

\* No schema is being adapted.
SchemaIdle ==
    /\ target = "none"
    /\ inputSchema = NoSchema
    /\ adapted = NotAdapted
    /\ readapted = NotAdapted

\* convertToAnthropicStream has not been called.
StreamIdle ==
    /\ stream = "none"
    /\ carries = {}
    /\ pending = 0
    /\ consumed = <<>>
    /\ index = 0
    /\ wire = <<>>
    /\ readable = "none"
    /\ readPos = 0

Init ==
    /\ IsInputConversation(messages)
    /\ pc = "ready"
    /\ normalized = NotCalled
    /\ renormalized = NotCalled
    /\ ProxyIdle
    /\ StreamIdle
    /\ SchemaIdle
    /\ RequestIdle
    /\ DebugIdle
    /\ PairIdle

\* Normalize writing the filtered content back into the caller's messages.
Normalize_InPlace ==
    /\ pc = "ready"
    /\ normalized' = filterDuplicateToolCalls(messages)
    /\ pc' = IF normalized'.threw THEN "threw" ELSE "returned"
    /\ messages' = IF normalized'.threw THEN messages ELSE normalized'.value
    /\ UNCHANGED renormalized
    /\ UNCHANGED proxyVars
    /\ UNCHANGED streamVars
    /\ UNCHANGED schemaVars
    /\ UNCHANGED requestVars
    /\ UNCHANGED debugVars
    /\ UNCHANGED pairVars

\* A caller runs filterDuplicateToolCalls(messages).
Normalize ==
    /\ pc = "ready"
    /\ normalized' = filterDuplicateToolCalls(messages)
    /\ pc' = IF normalized'.threw THEN "threw" ELSE "returned"
    /\ UNCHANGED <<messages, renormalized>>
    /\ UNCHANGED proxyVars
    /\ UNCHANGED streamVars
    /\ UNCHANGED schemaVars
    /\ UNCHANGED requestVars
    /\ UNCHANGED debugVars
    /\ UNCHANGED pairVars

\* The caller runs filterDuplicateToolCalls again, on the returned value.
Renormalize ==
    /\ pc = "returned"
    /\ renormalized' = filterDuplicateToolCalls(normalized.value)
    /\ pc' = "renormalized"
    /\ UNCHANGED <<messages, normalized>>
    /\ UNCHANGED proxyVars
    /\ UNCHANGED streamVars
    /\ UNCHANGED schemaVars
    /\ UNCHANGED requestVars
    /\ UNCHANGED debugVars
    /\ UNCHANGED pairVars

Next == Normalize \/ Renormalize

Spec == Init /\ [][Next]_vars

\* ------------------------------------------------------------------------
\* convertToAnthropicStream on a backend stream, with a reader of the
\* stream it returns.
\* ------------------------------------------------------------------------
\* convertToAnthropicStream(stream) has been called and has returned.
StreamInit ==
    /\ messages = <<>>
    /\ pc = "ready"
    /\ normalized = NotCalled
    /\ renormalized = NotCalled
    /\ ProxyIdle
    /\ stream = "open"
    /\ carries = GenerationEvents
    /\ pending = MaxEvents
    /\ consumed = <<>>
    /\ index = 0
    /\ wire = <<>>
    /\ readable = "open"
    /\ readPos = 0
    /\ SchemaIdle
    /\ RequestIdle
    /\ DebugIdle
    /\ PairIdle

\* Transform enqueuing its chunks ahead of those of the earlier calls.
Transform_Prepend ==
    /\ stream = "open"
    /\ readable = "open"
    /\ pending > 0
    /\ readPos = Len(wire)
    /\ errors = <<>>
    /\ \E chunk \in carries :
          LET t == transform(chunk, index)
          IN /\ consumed' = Append(consumed, chunk)
             /\ wire' = t.enqueued \o wire
             /\ index' = t.index
             /\ readable' = IF t.failed THEN "errored" ELSE readable
             /\ stream' = IF t.failed THEN "cancelled" ELSE stream
             /\ errors' = IF handler = "backend" /\ chunk.type = "error"
                           THEN <<chunk.error>> ELSE errors
    /\ pending' = pending - 1
    /\ UNCHANGED <<carries, readPos>>
    /\ UNCHANGED normalizerVars
    /\ UNCHANGED <<providers, body, handler, pipeline, coreInput, res, sse, client>>
    /\ UNCHANGED schemaVars
    /\ UNCHANGED requestVars
    /\ UNCHANGED debugVars
    /\ UNCHANGED pairVars

\* pipeTo hands the next chunk of the backend stream to transform(), which
\* it does once the reader has taken every chunk enqueued before; a call of
\* controller.error fails both sides, and pipeTo cancels the backend stream.
\* When the stream is the fullStream of streamText, streamText calls onError
\* with the error of an error chunk before it passes on the next chunk.
Transform ==
    /\ stream = "open"
    /\ readable = "open"
    /\ pending > 0
    /\ readPos = Len(wire)
    /\ errors = <<>>
    /\ \E chunk \in carries :
          LET t == transform(chunk, index)
          IN /\ consumed' = Append(consumed, chunk)
             /\ wire' = wire \o t.enqueued
             /\ index' = t.index
             /\ readable' = IF t.failed THEN "errored" ELSE readable
             /\ stream' = IF t.failed THEN "cancelled" ELSE stream
             /\ errors' = IF handler = "backend" /\ chunk.type = "error"
                           THEN <<chunk.error>> ELSE errors
    /\ pending' = pending - 1
    /\ UNCHANGED <<carries, readPos>>
    /\ UNCHANGED normalizerVars
    /\ UNCHANGED <<providers, body, handler, pipeline, coreInput, res, sse, client>>
    /\ UNCHANGED schemaVars
    /\ UNCHANGED requestVars
    /\ UNCHANGED debugVars
    /\ UNCHANGED pairVars

\* The backend stream ends: pipeTo closes transform.writable, and the
\* readable side closes behind the chunks already enqueued.
EndOfStream ==
    /\ stream = "open"
    /\ readable = "open"
    /\ errors = <<>>
    /\ stream' = "closed"
    /\ readable' = "closed"
    /\ UNCHANGED <<carries, pending, consumed, index, wire, readPos>>
    /\ UNCHANGED normalizerVars
    /\ UNCHANGED proxyVars
    /\ UNCHANGED schemaVars
    /\ UNCHANGED requestVars
    /\ UNCHANGED debugVars
    /\ UNCHANGED pairVars

\* A reader of the returned stream, other than the handler, takes the next
\* chunk.
ReadChunk ==
    /\ handler = "idle"
    /\ readable \in {"open", "closed"}
    /\ readPos < Len(wire)
    /\ readPos' = readPos + 1
    /\ UNCHANGED <<stream, carries, pending, consumed, index, wire, readable>>
    /\ UNCHANGED normalizerVars
    /\ UNCHANGED proxyVars
    /\ UNCHANGED schemaVars
    /\ UNCHANGED requestVars
    /\ UNCHANGED debugVars
    /\ UNCHANGED pairVars

StreamNext == Transform \/ EndOfStream \/ ReadChunk

StreamSpec == StreamInit /\ [][StreamNext]_vars

\* The chunks of a backend stream of text in steps.
StepEvents ==
    {[type |-> t] : t \in {"start-step", "finish", "text-start", "text-end"}}
    \cup {[type |-> "text-delta", text |-> "hi"]}
    \cup {[type |-> "finish-step", finishReason |-> "stop",
           usage |-> [inputTokens |-> 3, outputTokens |-> 5]]}

\* convertToAnthropicStream(stream) has been called on such a stream.
StepsInit ==
    /\ messages = <<>>
    /\ pc = "ready"
    /\ normalized = NotCalled
    /\ renormalized = NotCalled
    /\ ProxyIdle
    /\ stream = "open"
    /\ carries = StepEvents
    /\ pending = MaxStepEvents
    /\ consumed = <<>>
    /\ index = 0
    /\ wire = <<>>
    /\ readable = "open"
    /\ readPos = 0
    /\ SchemaIdle
    /\ RequestIdle
    /\ DebugIdle
    /\ PairIdle

StepsSpec == StepsInit /\ [][StreamNext]_vars

\* ------------------------------------------------------------------------
\* The /v1/messages handler of createAnthropicProxy.  The repository holds
\* two versions of it: the one of anthropic-proxy.ts converts body.messages
\* as they are, the other one runs filterDuplicateToolCalls on them first.
\* ------------------------------------------------------------------------
\* The conversations of at most maxMessages messages and maxItems items.
Conversations(maxMessages, maxItems) ==
    UNION {UNION {UNION {{BuildConversation(kinds, lens, choices) :
                             choices \in [1..SumTo(lens, n) -> ItemChoices]} :
                         lens \in {l \in [1..n -> 0..maxItems] :
                                      /\ SumTo(l, n) <= maxItems
                                      /\ \A i \in 1..n : ~kinds[i].isArray => l[i] = 0}} :
                  kinds \in [1..n -> MessageKinds]} :
           n \in 0..maxMessages}

\* The body of a /v1/messages request has been read and parsed.
ProxyInit ==
    /\ messages = <<>>
    /\ pc = "ready"
    /\ normalized = NotCalled
    /\ renormalized = NotCalled
    /\ providers \in ProviderSets
    /\ body \in [model : ModelIds,
                 messages : Conversations(MaxRequestMessages, MaxRequestItems),
                 stream : BOOLEAN]
    /\ handler = "received"
    /\ pipeline = <<>>
    /\ coreInput = <<>>
    /\ res = NoResponse
    /\ sse = <<>>
    /\ client = "connected"
    /\ errors = <<>>
    /\ stream = "none"
    /\ carries = GenerationEvents
    /\ pending = 1
    /\ consumed = <<>>
    /\ index = 0
    /\ wire = <<>>
    /\ readable = "none"
    /\ readPos = 0
    /\ SchemaIdle
    /\ req \in {Request(text) : text \in JsonTexts(body)}
    /\ upstream = NotForwarded
    /\ languageModel = NoLanguageModel
    /\ debugEnabled \in BOOLEAN
    /\ debugFiles = <<>>
    /\ PairIdle

\* The catch of the handler: res.writeHead(500) and res.end of the error.
InternalServerError ==
    [statusCode |-> 500, body |-> "error", frames |-> 0, ended |-> TRUE,
     json |-> NoMessage]

\* The model name of a request whose identifier has the parts, as handed
\* to provider.languageModel: the second of the parts (index 1 of the
\* array).
model(modelParts) == <<modelParts[2]>>

\* What the handler does with a request whose model names provider
\* providerName, from the provider lookup to the call of streamText;
\* normalize tells whether filterDuplicateToolCalls runs on body.messages.
Translate(providerName, normalize) ==
    IF providerName \notin providers
    THEN \* throw new Error(`Unknown provider: ...`)
         /\ handler' = "failed"
         /\ res' = InternalServerError
         /\ UNCHANGED <<pipeline, coreInput, languageModel>>
    ELSE IF normalize /\ filterDuplicateToolCalls(body.messages).threw
    THEN \* the Error of filterDuplicateToolCalls reaches the catch
         /\ handler' = "failed"
         /\ res' = InternalServerError
         /\ pipeline' = <<"filterDuplicateToolCalls">>
         /\ UNCHANGED <<coreInput, languageModel>>
    ELSE /\ handler' = "backend"
         /\ coreInput' = IF normalize THEN filterDuplicateToolCalls(body.messages).value
                         ELSE body.messages
         /\ pipeline' = (IF normalize THEN <<"filterDuplicateToolCalls">> ELSE <<>>)
                           \o <<"convertFromAnthropicMessages", "streamText">>
         /\ languageModel' = [provider |-> providerName, model |-> model(Split(body.model))]
         /\ UNCHANGED res

\* proxyToAnthropic(body): the host header is deleted from the request and
\* the request is sent to the vendor with the body made text again.
proxyToAnthropic ==
    /\ req' = [req EXCEPT !.headers = Without(@, "host")]
    /\ upstream' = [host |-> "api.anthropic.com",
                    path |-> req.url,
                    method |-> req.method,
                    headers |-> Without(req.headers, "host"),
                    body |-> Stringify(body),
                    relayed |-> NoVendorResponse]

\* From the split of body.model to the call of streamText.
Route(normalize) ==
    LET modelParts == Split(body.model)
    IN IF Len(modelParts) = 1
       THEN IF "anthropic" \in providers
            THEN \* providerName and model are set, then the handler returns
                 /\ handler' = "returned"
                 /\ UNCHANGED <<pipeline, coreInput, res>>
                 /\ UNCHANGED requestVars
            ELSE /\ proxyToAnthropic
                 /\ handler' = "forwarded"
                 /\ UNCHANGED <<pipeline, coreInput, res, languageModel>>
       ELSE /\ Translate(modelParts[1], normalize)
            /\ UNCHANGED <<req, upstream>>

\* convertToAnthropicStream(stream.fullStream), called when the handler has
\* reached streamText for a request that is streamed.
StartStream ==
    /\ stream' = IF handler' = "backend" /\ body.stream THEN "open" ELSE stream
    /\ readable' = IF handler' = "backend" /\ body.stream THEN "open" ELSE readable
    /\ UNCHANGED <<carries, pending, consumed, index, wire, readPos>>

\* The handler of anthropic-proxy.ts.
HandleMessages ==
    /\ handler = "received"
    /\ Route(FALSE)
    /\ StartStream
    /\ UNCHANGED <<providers, body, sse, client, errors>>
    /\ UNCHANGED normalizerVars
    /\ UNCHANGED schemaVars
    /\ UNCHANGED debugVars
    /\ UNCHANGED pairVars

\* The handler that imports filter-duplicates.
HandleMessagesFiltered ==
    /\ handler = "received"
    /\ Route(TRUE)
    /\ StartStream
    /\ UNCHANGED <<providers, body, sse, client, errors>>
    /\ UNCHANGED normalizerVars
    /\ UNCHANGED schemaVars
    /\ UNCHANGED debugVars
    /\ UNCHANGED pairVars

\* res.writeHead throws once the headers of the response are sent.
headersSent == res.statusCode # 0

\* What streamText hands to onFinish: response.messages and finishReason.
Completions ==
    [messages : {<<>>, <<[role |-> "assistant", content |-> "text"]>>},
     finishReason : {"stop", "length"}]

\* convertToAnthropicMessagesPrompt({prompt: [convertToLanguageModelMessage(
\* message, {})], ...}).prompt.messages
convertToAnthropicMessagesPrompt(message) ==
    <<[role |-> "assistant", content |-> message.content]>>

\* The response onFinish writes, were the model the one the provider was
\* called with.
MessageResponse_BackendModel(promptMessage, finishReason) ==
    [statusCode |-> 200, body |-> "message", frames |-> 0, ended |-> TRUE,
     json |-> [type |-> "message",
               role |-> promptMessage.role,
               model |-> languageModel.model,
               stop_reason |-> mapAnthropicStopReason(finishReason).mapped,
               stop_sequence |-> "null"]]

\* The response onFinish writes for the message of the backend.
MessageResponse(promptMessage, finishReason) ==
    [statusCode |-> 200, body |-> "message", frames |-> 0, ended |-> TRUE,
     json |-> [type |-> "message",
               role |-> promptMessage.role,
               model |-> body.model,
               stop_reason |-> mapAnthropicStopReason(finishReason).mapped,
               stop_sequence |-> "null"]]

\* onFinish of a request that is not streamed.  With no message in the
\* response it throws, and so does res.writeHead when onError has answered
\* already.  What streamText and consumeStream do with an exception of
\* onFinish is theirs to decide: it reaches the await of consumeStream and
\* the catch of the handler, or it is swallowed and the handler returns.
OnFinish ==
    /\ handler = "backend"
    /\ ~body.stream
    /\ errors = <<>>
    /\ \E completion \in Completions :
          IF completion.messages = <<>> \/ headersSent
          THEN \E reachesCatch \in BOOLEAN :
                  IF reachesCatch
                  THEN /\ handler' = "failed"
                       /\ res' = IF headersSent THEN res ELSE InternalServerError
                  ELSE /\ handler' = "returned"
                       /\ UNCHANGED res
          ELSE LET prompt == convertToAnthropicMessagesPrompt(completion.messages[1])
               IN /\ res' = MessageResponse(prompt[1], completion.finishReason)
                  /\ handler' = "responded"
    /\ UNCHANGED <<providers, body, pipeline, coreInput, sse, client, errors>>
    /\ UNCHANGED normalizerVars
    /\ UNCHANGED streamVars
    /\ UNCHANGED schemaVars
    /\ UNCHANGED requestVars
    /\ UNCHANGED debugVars
    /\ UNCHANGED pairVars

\* The backend of a request that is not streamed fails: streamText has an
\* error to call onError with.
BackendError ==
    /\ handler = "backend"
    /\ ~body.stream
    /\ errors = <<>>
    /\ ~headersSent
    /\ pending > 0
    /\ pending' = pending - 1
    /\ \E error \in ErrorValues : errors' = <<error>>
    /\ UNCHANGED <<providers, body, handler, pipeline, coreInput, res, sse, client>>
    /\ UNCHANGED <<stream, carries, consumed, index, wire, readable, readPos>>
    /\ UNCHANGED normalizerVars
    /\ UNCHANGED schemaVars
    /\ UNCHANGED requestVars
    /\ UNCHANGED debugVars
    /\ UNCHANGED pairVars

\* providerName of a request the handler has routed to a provider.
providerName == Split(body.model)[1]

\* The request is served by the handler that imports filter-duplicates,
\* whose onError and write() have no test for server errors.
filtering == pipeline # <<>> /\ pipeline[1] = "filterDuplicateToolCalls"

\* The test of onError for the error of a backend that is to be answered
\* as a rate limit.
isOpenAIServerError(error) ==
    /\ ~filtering
    /\ providerName = "openai"
    /\ error.kind = "object"
    /\ "error" \in DOMAIN error
    /\ error.error.code = "server_error"

\* The response onError writes: 429 and the rate limit error, else 400 and
\* the error of the backend.
ProviderError(error) ==
    IF isOpenAIServerError(error)
    THEN [statusCode |-> 429, body |-> "rate_limit_error", frames |-> 0,
          ended |-> TRUE, json |-> NoMessage]
    ELSE [statusCode |-> 400, body |-> "provider_error", frames |-> 0,
          ended |-> TRUE, json |-> NoMessage]

\* streamText calls onError: the debug file is written, then the response.
\* When writeDebugToTempFile or res.writeHead throws in it, streamText
\* either goes on with its stream or fails it, and pipeTo then fails
\* transform.readable.
OnError ==
    /\ handler = "backend"
    /\ errors # <<>>
    /\ errors' = Tail(errors)
    /\ \E fs \in FsOutcomes :
          LET statusCode == ProviderError(Head(errors)).statusCode
              outcome == writeDebugToTempFile(statusCode, debugEnabled, fs)
          IN /\ debugFiles' = Logged(debugFiles, outcome, "Provider", statusCode)
             /\ IF outcome.threw \/ headersSent
                THEN /\ UNCHANGED res
                     /\ \E goesOn \in BOOLEAN :
                           /\ stream' = IF goesOn THEN stream ELSE "errored"
                           /\ readable' = IF goesOn THEN readable ELSE "errored"
                ELSE /\ res' = ProviderError(Head(errors))
                     /\ UNCHANGED <<stream, readable>>
    /\ UNCHANGED <<providers, body, handler, pipeline, coreInput, sse, client>>
    /\ UNCHANGED <<carries, pending, consumed, index, wire, readPos>>
    /\ UNCHANGED normalizerVars
    /\ UNCHANGED schemaVars
    /\ UNCHANGED requestVars
    /\ UNCHANGED debugEnabled
    /\ UNCHANGED pairVars

\* The chunk write() puts in place of the error chunk of an openai server
\* error.
RateLimitChunk ==
    [type |-> "error",
     error |-> [type |-> "rate_limit_error", code |-> "rate_limit_error",
                message |-> String("OpenAI server temporarily unavailable. Please retry your request."),
                param |-> "null"]]

\* The test of write() on a chunk of type error.
isOpenAIServerErrorChunk(chunk) ==
    /\ ~filtering
    /\ providerName = "openai"
    /\ "code" \in DOMAIN chunk.error
    /\ chunk.error.code = "server_error"

\* The chunk write() hands to res.write for a chunk of the translated
\* stream.
written(chunk) ==
    IF chunk.type = "error" /\ isOpenAIServerErrorChunk(chunk)
    THEN RateLimitChunk
    ELSE chunk

\* write of the WritableStream: for a chunk of type error the debug file is
\* written; the next chunk of the translated stream is written as one SSE
\* frame, which reaches the client unless the response is ended or the
\* client is gone.  An exception in write() fails the pipe.
WriteChunk ==
    /\ handler = "backend"
    /\ body.stream
    /\ readable \in {"open", "closed"}
    /\ readPos < Len(wire)
    /\ readPos' = readPos + 1
    /\ \E fs \in FsOutcomes :
          LET chunk == wire[readPos + 1]
              outcome == IF chunk.type = "error"
                         THEN writeDebugToTempFile(400, debugEnabled, fs)
                         ELSE NoDebug
          IN /\ debugFiles' = Logged(debugFiles, outcome, "Streaming", 400)
             /\ IF outcome.threw
                THEN /\ readable' = "errored"
                     /\ stream' = "cancelled"
                     /\ UNCHANGED <<res, sse>>
                ELSE /\ IF res.ended \/ client = "closed"
                        THEN UNCHANGED <<res, sse>>
                        ELSE /\ res' = [res EXCEPT !.statusCode = 200, !.frames = @ + 1]
                             /\ sse' = Append(sse, written(chunk))
                     /\ UNCHANGED <<stream, readable>>
    /\ UNCHANGED <<providers, body, handler, pipeline, coreInput, client, errors>>
    /\ UNCHANGED <<carries, pending, consumed, index, wire>>
    /\ UNCHANGED normalizerVars
    /\ UNCHANGED schemaVars
    /\ UNCHANGED requestVars
    /\ UNCHANGED debugEnabled
    /\ UNCHANGED pairVars

\* close of the WritableStream, the translated stream having ended and all
\* its chunks being written: res.end().
CloseStream ==
    /\ handler = "backend"
    /\ body.stream
    /\ readable = "closed"
    /\ readPos = Len(wire)
    /\ res' = [res EXCEPT !.ended = TRUE,
                          !.statusCode = IF @ = 0 THEN 200 ELSE @]
    /\ handler' = "responded"
    /\ UNCHANGED <<providers, body, pipeline, coreInput, sse, client, errors>>
    /\ UNCHANGED normalizerVars
    /\ UNCHANGED streamVars
    /\ UNCHANGED schemaVars
    /\ UNCHANGED requestVars
    /\ UNCHANGED debugVars
    /\ UNCHANGED pairVars

\* The translated stream has failed: pipeTo rejects and the catch of the
\* handler runs.  With the headers sent res.writeHead(500) throws in it and
\* the rejection is left unhandled.
PipeRejected ==
    /\ handler = "backend"
    /\ body.stream
    /\ readable = "errored"
    /\ IF headersSent
       THEN /\ handler' = "rejected"
            /\ UNCHANGED res
       ELSE /\ handler' = "failed"
            /\ res' = InternalServerError
    /\ UNCHANGED <<providers, body, pipeline, coreInput, sse, client, errors>>
    /\ UNCHANGED normalizerVars
    /\ UNCHANGED streamVars
    /\ UNCHANGED schemaVars
    /\ UNCHANGED requestVars
    /\ UNCHANGED debugVars
    /\ UNCHANGED pairVars

\* The client closes the connection of a streamed request; the handler
\* listens to the error event of res only, and does nothing in it.
ClientCloses ==
    /\ handler = "backend"
    /\ body.stream
    /\ client = "connected"
    /\ client' = "closed"
    /\ UNCHANGED <<providers, body, handler, pipeline, coreInput, res, sse, errors>>
    /\ UNCHANGED normalizerVars
    /\ UNCHANGED streamVars
    /\ UNCHANGED schemaVars
    /\ UNCHANGED requestVars
    /\ UNCHANGED debugVars
    /\ UNCHANGED pairVars

\* The callback of https.request in proxyToAnthropic: the status, the
\* headers and the body of the vendor are written to the response, and a
\* 4xx other than 429 is handed to writeDebugToTempFile when the body of
\* the vendor has ended.
ProxiedResponse ==
    /\ handler = "forwarded"
    /\ \E vendor \in VendorResponses, fs \in FsOutcomes :
          LET statusCode == IF vendor.statusCode = NoStatus THEN 500
                            ELSE vendor.statusCode
              outcome == IF statusCode >= 400 /\ statusCode < 500 /\ statusCode # 429
                         THEN writeDebugToTempFile(statusCode, debugEnabled, fs)
                         ELSE NoDebug
          IN /\ upstream' = [upstream EXCEPT !.relayed =
                                [statusCode |-> statusCode,
                                 headers |-> vendor.headers,
                                 body |-> vendor.body]]
             /\ res' = [statusCode |-> statusCode, body |-> vendor.body,
                        frames |-> 0, ended |-> TRUE, json |-> NoMessage]
             /\ debugFiles' = Logged(debugFiles, outcome, "HTTP", statusCode)
    /\ handler' = "relayed"
    /\ UNCHANGED <<providers, body, pipeline, coreInput, sse, client, errors>>
    /\ UNCHANGED <<req, languageModel, debugEnabled>>
    /\ UNCHANGED normalizerVars
    /\ UNCHANGED streamVars
    /\ UNCHANGED schemaVars
    /\ UNCHANGED pairVars

ProxyNext ==
    \/ HandleMessages
    \/ HandleMessagesFiltered
    \/ ProxiedResponse
    \/ OnFinish
    \/ BackendError
    \/ Transform
    \/ EndOfStream
    \/ OnError
    \/ WriteChunk
    \/ CloseStream
    \/ PipeRejected
    \/ ClientCloses

ProxySpec == ProxyInit /\ [][ProxyNext]_vars

\* The models of the streamed requests.
StreamedModelIds == {<<"openai", "/", "m">>, <<"google", "/", "m">>, <<"m">>}

\* The body of a /v1/messages request with no messages has been read and
\* parsed.
StreamingInit ==
    /\ messages = <<>>
    /\ pc = "ready"
    /\ normalized = NotCalled
    /\ renormalized = NotCalled
    /\ providers = BaseProviders
    /\ body \in [model : StreamedModelIds, messages : {<<>>}, stream : BOOLEAN]
    /\ handler = "received"
    /\ pipeline = <<>>
    /\ coreInput = <<>>
    /\ res = NoResponse
    /\ sse = <<>>
    /\ client = "connected"
    /\ errors = <<>>
    /\ stream = "none"
    /\ carries = GenerationEvents
    /\ pending = MaxBackendEvents
    /\ consumed = <<>>
    /\ index = 0
    /\ wire = <<>>
    /\ readable = "none"
    /\ readPos = 0
    /\ SchemaIdle
    /\ req = Request([value |-> body, spaces |-> <<>>])
    /\ upstream = NotForwarded
    /\ languageModel = NoLanguageModel
    /\ debugEnabled \in BOOLEAN
    /\ debugFiles = <<>>
    /\ PairIdle

StreamingSpec == StreamingInit /\ [][ProxyNext]_vars

\* The chunks of the backend streams of the requests whose responses are
\* looked at: a step that starts, text, the errors of a backend, and a chunk
\* transform() has no case for.
ReplyEvents ==
    {chunk \in GenerationEvents :
        \/ chunk.type \in {"start-step", "text-delta", "tool-result"}
        \/ /\ chunk.type = "error"
           /\ chunk.error \in {[kind |-> "Error", message |-> "boom"],
                                [kind |-> "object", error |-> [code |-> "server_error"]]}}

\* The body of a /v1/messages request with no messages has been read and
\* parsed, diagnostics being enabled or not.
ReplyInit ==
    /\ messages = <<>>
    /\ pc = "ready"
    /\ normalized = NotCalled
    /\ renormalized = NotCalled
    /\ providers \in ProviderSets
    /\ body \in [model : ModelIds, messages : {<<>>}, stream : BOOLEAN]
    /\ handler = "received"
    /\ pipeline = <<>>
    /\ coreInput = <<>>
    /\ res = NoResponse
    /\ sse = <<>>
    /\ client = "connected"
    /\ errors = <<>>
    /\ stream = "none"
    /\ carries = ReplyEvents
    /\ pending = MaxBackendEvents
    /\ consumed = <<>>
    /\ index = 0
    /\ wire = <<>>
    /\ readable = "none"
    /\ readPos = 0
    /\ SchemaIdle
    /\ req = Request([value |-> body, spaces |-> <<>>])
    /\ upstream = NotForwarded
    /\ languageModel = NoLanguageModel
    /\ debugEnabled \in BOOLEAN
    /\ debugFiles = <<>>
    /\ PairIdle

ReplySpec == ReplyInit /\ [][ProxyNext]_vars

\* The handler, streamText and the pipe go on as long as one of them has a
\* step to take.
FairReplySpec == ReplyInit /\ [][ProxyNext]_vars /\ WF_vars(ProxyNext)

\* ------------------------------------------------------------------------
\* Two requests streamed at the same time: each call of
\* convertToAnthropicStream has its own index, and the chunks of the two
\* backend streams arrive in any interleaving.
\* ------------------------------------------------------------------------
Requests == {1, 2}

\* The chunks the backend streams of the two requests carry.
PairEvents ==
    {chunk \in GenerationEvents :
        chunk.type \in {"text-start", "text-end", "tool-call", "finish",
                        "tool-result"}}

\* convertToAnthropicStream has been called for each of the requests.
PairInit ==
    /\ messages = <<>>
    /\ pc = "ready"
    /\ normalized = NotCalled
    /\ renormalized = NotCalled
    /\ ProxyIdle
    /\ StreamIdle
    /\ SchemaIdle
    /\ RequestIdle
    /\ DebugIdle
    /\ pipelines = [r \in Requests |->
                       [consumed |-> <<>>, index |-> 0, wire |-> <<>>,
                        readable |-> "open"]]

\* transform() of request r, were index a variable of the module that the
\* calls of convertToAnthropicStream share.
TransformOf_SharedIndex(r) ==
    /\ pipelines # <<>>
    /\ pipelines[r].readable = "open"
    /\ Len(pipelines[r].consumed) < MaxPairEvents
    /\ \E chunk \in PairEvents :
          LET t == transform(chunk, pipelines[r].index)
          IN pipelines' =
                [q \in Requests |->
                    IF q = r
                    THEN [consumed |-> Append(pipelines[r].consumed, chunk),
                          index |-> t.index,
                          wire |-> pipelines[r].wire \o t.enqueued,
                          readable |-> IF t.failed THEN "errored" ELSE "open"]
                    ELSE [pipelines[q] EXCEPT !.index = t.index]]
    /\ UNCHANGED normalizerVars
    /\ UNCHANGED proxyVars
    /\ UNCHANGED streamVars
    /\ UNCHANGED schemaVars
    /\ UNCHANGED requestVars
    /\ UNCHANGED debugVars

\* transform() of request r is called with the next chunk of its backend
\* stream: it reads and writes the index of its own call of
\* convertToAnthropicStream.
TransformOf(r) ==
    /\ pipelines # <<>>
    /\ pipelines[r].readable = "open"
    /\ Len(pipelines[r].consumed) < MaxPairEvents
    /\ \E chunk \in PairEvents :
          LET t == transform(chunk, pipelines[r].index)
          IN pipelines' =
                [pipelines EXCEPT ![r] =
                    [consumed |-> Append(pipelines[r].consumed, chunk),
                     index |-> t.index,
                     wire |-> pipelines[r].wire \o t.enqueued,
                     readable |-> IF t.failed THEN "errored" ELSE "open"]]
    /\ UNCHANGED normalizerVars
    /\ UNCHANGED proxyVars
    /\ UNCHANGED streamVars
    /\ UNCHANGED schemaVars
    /\ UNCHANGED requestVars
    /\ UNCHANGED debugVars

PairNext == \E r \in Requests : TransformOf(r)

PairSpec == PairInit /\ [][PairNext]_vars

\* ------------------------------------------------------------------------
\* providerizeSchema on the input_schema of a tool.
\* ------------------------------------------------------------------------
SchemaInit ==
    /\ messages = <<>>
    /\ pc = "ready"
    /\ normalized = NotCalled
    /\ renormalized = NotCalled
    /\ ProxyIdle
    /\ StreamIdle
    /\ target \in SchemaProviders
    /\ inputSchema \in SchemasUpTo(MaxSchemaNodes)
    /\ adapted = NotAdapted
    /\ readapted = NotAdapted
    /\ RequestIdle
    /\ DebugIdle
    /\ PairIdle

\* A caller runs providerizeSchema(target, inputSchema): the call returns
\* its value and leaves the schema object of the caller as inputAfter tells.
Adapt ==
    /\ ~adapted.called
    /\ adapted' = [called |-> TRUE,
                   value |-> providerizeSchema(target, inputSchema),
                   given |-> inputSchema]
    /\ inputSchema' = inputAfter(target, inputSchema)
    /\ UNCHANGED <<target, readapted>>
    /\ UNCHANGED normalizerVars
    /\ UNCHANGED proxyVars
    /\ UNCHANGED streamVars
    /\ UNCHANGED requestVars
    /\ UNCHANGED debugVars
    /\ UNCHANGED pairVars

\* The caller runs providerizeSchema again, on the schema it returned.
Readapt ==
    /\ adapted.called
    /\ ~readapted.called
    /\ readapted' = [called |-> TRUE,
                     value |-> providerizeSchema(target, adapted.value),
                     given |-> adapted.value]
    /\ adapted' = [adapted EXCEPT !.value = inputAfter(target, adapted.value)]
    /\ UNCHANGED <<target, inputSchema>>
    /\ UNCHANGED normalizerVars
    /\ UNCHANGED proxyVars
    /\ UNCHANGED streamVars
    /\ UNCHANGED requestVars
    /\ UNCHANGED debugVars
    /\ UNCHANGED pairVars

SchemaNext == Adapt \/ Readapt

SchemaSpec == SchemaInit /\ [][SchemaNext]_vars

\* ------------------------------------------------------------------------
\* Vocabulary of the properties: positions and what sits at them, stated
\* without the scans.
\* ------------------------------------------------------------------------
Positions(msgs) ==
    UNION {{<<m, c>> : c \in 1..Len(msgs[m].content)} : m \in 1..Len(msgs)}

ItemAt(msgs, p) == msgs[p[1]].content[p[2]]

ToolUsesOf(msgs, id) ==
    {p \in Positions(msgs) : ItemAt(msgs, p).type = "tool_use" /\ ItemAt(msgs, p).id = id}

ToolResultsOf(msgs, id) ==
    {p \in Positions(msgs) :
        ItemAt(msgs, p).type = "tool_result" /\ ItemAt(msgs, p).tool_use_id = id}

\* Position p comes before position q in the conversation.
Before(p, q) == p[1] < q[1] \/ (p[1] = q[1] /\ p[2] < q[2])

\* The ids some tool_result references while no tool_use carries them.
OrphanedIds(msgs) ==
    {id \in Ids : ToolResultsOf(msgs, id) # {} /\ ToolUsesOf(msgs, id) = {}}

\* p holds a tool_use (tool_result) whose id an earlier tool_use (tool_result)
\* already carries.
LaterDuplicate(msgs, p) ==
    \E id \in Ids :
        \/ p \in ToolUsesOf(msgs, id) /\ \E q \in ToolUsesOf(msgs, id) : Before(q, p)
        \/ p \in ToolResultsOf(msgs, id) /\ \E q \in ToolResultsOf(msgs, id) : Before(q, p)

\* The content of message m without its later duplicates.
FirstOccurrencesOnly(msgs, m) ==
    LET content == msgs[m].content
        kept == SelectSeq([c \in 1..Len(content) |-> c],
                          LAMBDA c : ~LaterDuplicate(msgs, <<m, c>>))
    IN [k \in 1..Len(kept) |-> content[kept[k]]]

RECURSIVE IsSubsequence(_, _)
\* s is t with some elements left out.
IsSubsequence(s, t) ==
    IF s = <<>> THEN TRUE
    ELSE IF t = <<>> THEN FALSE
    ELSE IF Head(s) = Head(t) THEN IsSubsequence(Tail(s), Tail(t))
    ELSE IsSubsequence(s, Tail(t))

RECURSIVE AllItems(_)
\* The content items of a conversation, in order.
AllItems(msgs) ==
    IF msgs = <<>> THEN <<>> ELSE Head(msgs).content \o AllItems(Tail(msgs))

\* The first call has been made.
Called == pc # "ready"
\* The first call has returned a conversation.
HasReturned == pc \in {"returned", "renormalized"}

\* ------------------------------------------------------------------------
\* Properties.
\* ------------------------------------------------------------------------

\* C1: a conversation with a tool_result whose id no tool_use of the
\* conversation carries makes filterDuplicateToolCalls throw, the error
\* naming exactly the orphaned ids; it never returns a conversation then.
C1_OrphanedResultThrows ==
    (Called /\ OrphanedIds(messages) # {}) =>
        /\ normalized.threw
        /\ normalized.value = <<>>
        /\ Range(normalized.errorIds) = OrphanedIds(messages)

C1_Witness ==
    /\ pc = "threw"
    /\ OrphanedIds(messages) # {}
    /\ \E id \in Ids : ToolUsesOf(messages, id) # {} /\ ToolResultsOf(messages, id) # {}

\* C2: in a returned conversation every tool_use id occurs at most once.
C2_ToolUseIdsUnique ==
    HasReturned =>
        \A id \in Ids : Cardinality(ToolUsesOf(normalized.value, id)) <= 1

C2_Witness ==
    /\ pc = "returned"
    /\ \E id \in Ids : Cardinality(ToolUsesOf(messages, id)) >= 2

\* The scenario of C3: tool_use "x" twice in one assistant message and one
\* tool_result for "x".
C3_Scenario ==
    <<ArrayMessage("assistant", <<ToolUse("x"), ToolUse("x")>>),
      ArrayMessage("user", <<ToolResult("x")>>)>>

\* C3: in a returned conversation every id has at most one tool_result, and
\* the scenario yields exactly one tool_use("x") and one tool_result("x").
C3_ToolResultsUnique ==
    /\ HasReturned =>
          \A id \in Ids : Cardinality(ToolResultsOf(normalized.value, id)) <= 1
    /\ (Called /\ messages = C3_Scenario) =>
          /\ HasReturned
          /\ Cardinality(ToolUsesOf(normalized.value, "x")) = 1
          /\ Cardinality(ToolResultsOf(normalized.value, "x")) = 1
          /\ Len(AllItems(normalized.value)) = 2

C3_Witness ==
    /\ pc = "returned"
    /\ \E id \in Ids : Cardinality(ToolResultsOf(messages, id)) >= 2
    /\ \E id \in Ids : Cardinality(ToolUsesOf(messages, id)) >= 2

\* C4: the returned conversation is an order-preserving sub-selection of the
\* input: message by message the content is a subsequence of the input
\* content, so the surviving calls and the surviving results keep their
\* relative order; nothing is inserted or reordered.
C4_OrderPreservingSubselection ==
    HasReturned =>
        /\ Len(normalized.value) = Len(messages)
        /\ \A m \in 1..Len(messages) :
              IsSubsequence(normalized.value[m].content, messages[m].content)
        /\ IsSubsequence(toolCallOrder(normalized.value), toolCallOrder(messages))
        /\ IsSubsequence(toolResultOrder(normalized.value), toolResultOrder(messages))

\* A duplicate placed after another call: A, B, A.
C4_Witness ==
    /\ pc = "returned"
    /\ \E m \in 1..Len(messages) :
          /\ Len(normalized.value[m].content) >= 2
          /\ Len(normalized.value[m].content) < Len(messages[m].content)
          /\ \E id \in Ids : \E p, q \in ToolUsesOf(messages, id) :
                p[1] = m /\ q[1] = m /\ p[2] + 1 < q[2]

\* C5: normalizing a normalized conversation succeeds and changes nothing.
C5_Idempotent ==
    pc = "renormalized" =>
        /\ ~renormalized.threw
        /\ renormalized.value = normalized.value

C5_Witness ==
    /\ pc = "renormalized"
    /\ normalized.value # messages

\* The scenario of C6: a single assistant tool_use and no result.
C6_Scenario == <<ArrayMessage("assistant", <<ToolUse("x")>>)>>

\* C6: filterDuplicateToolCalls throws exactly when the input holds an
\* orphaned tool_result; duplicates, calls without a result and a call
\* order that differs from the result order do not make it throw, and the
\* single in-flight call is returned unchanged.
C6_ThrowsOnlyOnOrphan ==
    /\ Called => (normalized.threw <=> OrphanedIds(messages) # {})
    /\ (Called /\ messages = C6_Scenario) =>
          (HasReturned /\ normalized.value = messages)

\* Returned although the results come in another order than the calls.
C6_Witness ==
    /\ pc = "returned"
    /\ ~validateToolCallConsistency(messages).orderPreserved
    /\ ~validateToolCallConsistency(normalized.value).orderPreserved

\* C7 as stated: in a returned conversation every tool_result references a
\* tool_use of the same or an earlier message.
C7_ResultNeverBeforeCall ==
    HasReturned =>
        \A id \in Ids : \A p \in ToolResultsOf(normalized.value, id) :
            \E q \in ToolUsesOf(normalized.value, id) : q[1] <= p[1]

\* C8: of the tool_use items (tool_result items) of one id, the one at the
\* earliest position survives and exactly the later ones are removed.
C8_FirstOccurrenceSurvives ==
    HasReturned =>
        \A m \in 1..Len(messages) :
            normalized.value[m].content = FirstOccurrencesOnly(messages, m)

\* A duplicated call with another item between its two occurrences, so that
\* which occurrence survives shows in the order of the output.
C8_Witness ==
    /\ pc = "returned"
    /\ \E id \in Ids : \E p, q \in ToolUsesOf(messages, id) :
          /\ p[1] = q[1] /\ p[2] + 1 < q[2]
          /\ ItemAt(messages, <<p[1], p[2] + 1>>) # ItemAt(messages, p)
    /\ \E id \in Ids : ToolResultsOf(messages, id) # {}

\* C9: a call leaves the caller's conversation as it was (and a second call
\* leaves the first result as it was), and every message that loses no item
\* is returned as the same message value.
C9_InputNotMutated ==
    [][/\ messages' = messages
       /\ HasReturned => normalized' = normalized
       /\ (pc = "ready" /\ pc' = "returned") =>
             \A m \in 1..Len(messages) :
                 (\A c \in 1..Len(messages[m].content) : ~LaterDuplicate(messages, <<m, c>>))
                     => normalized'.value[m] = messages[m]]_vars

\* Returned with one message filtered and another one shared.
C9_Witness ==
    /\ pc = "returned"
    /\ \E m, n \in 1..Len(messages) :
          /\ normalized.value[m] # messages[m]
          /\ normalized.value[n] = messages[n]
          /\ messages[n].content # <<>>

\* The request names a configured provider, and its handler has run.
RoutedToBackend ==
    /\ handler \notin {"idle", "received"}
    /\ Len(Split(body.model)) > 1
    /\ Split(body.model)[1] \in providers

\* C10 as stated: the messages of every request routed to a configured
\* backend go through filterDuplicateToolCalls before they are converted and
\* before streamText is called; when filterDuplicateToolCalls throws,
\* streamText is never called and nothing but the error response is written.
C10_NormalizedBeforeBackend ==
    RoutedToBackend =>
        /\ pipeline # <<>> /\ pipeline[1] = "filterDuplicateToolCalls"
        /\ IF filterDuplicateToolCalls(body.messages).threw
           THEN /\ pipeline = <<"filterDuplicateToolCalls">>
                /\ res.frames = 0
                /\ res.body # "message"
           ELSE /\ pipeline = <<"filterDuplicateToolCalls",
                                "convertFromAnthropicMessages", "streamText">>
                /\ coreInput = filterDuplicateToolCalls(body.messages).value

\* ------------------------------------------------------------------------
\* Vocabulary of the stream properties.
\* ------------------------------------------------------------------------
\* The types of the wire events one generation event of a type is to
\* produce.
BurstTypes(type) ==
    CASE type = "start-step" -> <<"message_start">>
      [] type = "finish-step" -> <<"message_delta">>
      [] type = "finish" -> <<"message_stop">>
      [] type \in {"text-start", "tool-input-start"} -> <<"content_block_start">>
      [] type \in {"text-delta", "tool-input-delta"} -> <<"content_block_delta">>
      [] type \in {"text-end", "tool-input-end"} -> <<"content_block_stop">>
      [] type = "tool-call" -> <<"content_block_start", "content_block_stop">>
      [] type = "error" -> <<"error">>
      [] OTHER -> <<>>

RECURSIVE Bursts(_)
\* The bursts of a sequence of generation events, one after the other.
Bursts(events) ==
    IF events = <<>> THEN <<>>
    ELSE BurstTypes(Head(events).type) \o Bursts(Tail(events))

TypesOf(chunks) == [i \in 1..Len(chunks) |-> chunks[i].type]

ScenarioEvents ==
    <<[type |-> "start-step"], [type |-> "text-start"],
      [type |-> "text-delta", text |-> "hi"], [type |-> "text-end"],
      [type |-> "finish-step", finishReason |-> "stop",
       usage |-> [inputTokens |-> 3, outputTokens |-> 5]],
      [type |-> "finish"]>>

\* C11: the wire events are, in order, the bursts of the generation events
\* transform() has been called with, each burst of 0, 1 or 2 events and
\* complete before the next call; and start-step, text-start,
\* text-delta("hi"), text-end, finish-step(stop), finish gives message_start,
\* content_block_start(0, text), content_block_delta(0, "hi"),
\* content_block_stop(0), message_delta(stop_reason), message_stop.
C11_WireOrderFollowsEvents ==
    /\ TypesOf(wire) = Bursts(consumed)
    /\ \A i \in 1..Len(consumed) : Len(BurstTypes(consumed[i].type)) \in 0..2
    /\ LET out == convertAll(ScenarioEvents, 0)
       IN /\ TypesOf(out) = <<"message_start", "content_block_start",
                              "content_block_delta", "content_block_stop",
                              "message_delta", "message_stop">>
          /\ out[2].index = 0 /\ out[2].content_block.type = "text"
          /\ out[3].index = 0 /\ out[3].delta.text = "hi"
          /\ out[4].index = 0
          /\ out[5].delta.stop_reason = mapAnthropicStopReason("stop")

\* Three generation events with bursts of 2, 0 and 1 wire events have been
\* translated.
C11_Witness ==
    /\ Len(consumed) = 3
    /\ consumed[1].type = "tool-call"
    /\ consumed[2].type = "raw"
    /\ consumed[3].type = "text-start"
    /\ Len(wire) = 3

\* The wire events that belong to a content block.
BlockTypes == {"content_block_start", "content_block_delta", "content_block_stop"}

\* How many content blocks were completed among the first n wire events of
\* chunks, since the last message_stop among them.
CompletedSinceReset(chunks, n) ==
    Cardinality({j \in 1..n :
                    /\ chunks[j].type = "content_block_stop"
                    /\ \A k \in j..n : chunks[k].type # "message_stop"})

\* Every wire event of a content block carries the number of blocks
\* completed before it since the last message_stop.
IndicesCountBlocks(chunks) ==
    \A i \in 1..Len(chunks) :
        chunks[i].type \in BlockTypes =>
            chunks[i].index = CompletedSinceReset(chunks, i - 1)

TextBlock ==
    <<[type |-> "text-start"], [type |-> "text-delta", text |-> "hi"],
      [type |-> "text-end"]>>

\* C12: the wire events of the k-th content block completed since the last
\* reset carry index k-1; two sequential text blocks start/delta/end with
\* no step or stream boundary between them carry 0, 0, 0 and 1, 1, 1.
C12_IndexCountsCompletedBlocks ==
    /\ IndicesCountBlocks(wire)
    /\ LET out == convertAll(TextBlock \o TextBlock, 0)
       IN [i \in 1..Len(out) |-> out[i].index] = <<0, 0, 0, 1, 1, 1>>

\* A second content block has been started behind a completed one.
C12_Witness ==
    /\ Len(wire) = 3
    /\ wire[1].type = "content_block_start" /\ wire[1].index = 0
    /\ wire[2].type = "content_block_stop" /\ wire[2].index = 0
    /\ wire[3].type = "content_block_start" /\ wire[3].index = 1
    /\ wire[3].content_block.type = "text"

\* Wire event j is the first event of a content block behind wire event i.
FirstBlockEventAfter(i, j) ==
    /\ i < j
    /\ wire[j].type \in BlockTypes
    /\ \A k \in (i + 1)..(j - 1) : wire[k].type \notin BlockTypes

\* C13: the content_block_start that opens the first content block behind a
\* message_stop carries index 0, however many blocks preceded the
\* message_stop.
C13_IndexResetAfterMessageStop ==
    \A i \in 1..Len(wire) : \A j \in 1..Len(wire) :
        /\ wire[i].type = "message_stop"
        /\ FirstBlockEventAfter(i, j)
        /\ wire[j].type = "content_block_start"
        => wire[j].index = 0

\* A block was completed, message_stop emitted, and a block started.
C13_Witness ==
    /\ Len(wire) = 4
    /\ wire[2].type = "content_block_stop"
    /\ wire[3].type = "message_stop"
    /\ wire[4].type = "content_block_start"

\* Where a backend stream stands behind a chunk of a type: outside a step,
\* in a step, in a text block, in a tool input, or "broken" when the type
\* cannot follow.
StepProtocol(at, type) ==
    CASE type \in IgnoredTypes \cup {"error"} -> at
      [] at = "outside" /\ type = "start-step" -> "step"
      [] at = "outside" /\ type = "finish" -> "outside"
      [] at = "step" /\ type = "finish-step" -> "outside"
      [] at = "step" /\ type = "tool-call" -> "step"
      [] at = "step" /\ type = "text-start" -> "text"
      [] at = "text" /\ type = "text-delta" -> "text"
      [] at = "text" /\ type = "text-end" -> "step"
      [] at = "step" /\ type = "tool-input-start" -> "tool"
      [] at = "tool" /\ type = "tool-input-delta" -> "tool"
      [] at = "tool" /\ type = "tool-input-end" -> "step"
      [] OTHER -> "broken"

RECURSIVE ProtocolAfter(_)
ProtocolAfter(events) ==
    IF events = <<>> THEN "outside"
    ELSE StepProtocol(ProtocolAfter(SubSeq(events, 1, Len(events) - 1)),
                      events[Len(events)].type)

\* The chunks are a prefix of a stream of steps, each step start-step,
\* content blocks one after the other, finish-step.
WellFormed(events) == ProtocolAfter(events) # "broken"

\* C14: in a well-formed stream, of one step or of several, the first
\* content_block_start behind every message_start carries index 0.
C14_FirstBlockOfMessageHasIndexZero ==
    WellFormed(consumed) =>
        \A i \in 1..Len(wire) : \A j \in 1..Len(wire) :
            /\ wire[i].type = "message_start"
            /\ FirstBlockEventAfter(i, j)
            /\ wire[j].type = "content_block_start"
            => wire[j].index = 0

\* C15: a chunk of a type that is neither handled nor ignored fails the
\* translated stream; it is the last chunk transform() is called with, and
\* the wire events are those of the chunks before it.
C15_UnhandledChunkFailsStream ==
    \A i \in 1..Len(consumed) :
        consumed[i].type \notin HandledTypes \cup IgnoredTypes =>
            /\ readable = "errored"
            /\ i = Len(consumed)
            /\ TypesOf(wire) = Bursts(SubSeq(consumed, 1, i - 1))

\* A chunk of an unhandled type arrived behind chunks that were translated.
C15_Witness ==
    /\ Len(consumed) = 3
    /\ consumed[3].type = "tool-result"
    /\ Len(wire) = 2
    /\ readable = "errored"

\* ------------------------------------------------------------------------
\* Properties of the streamed requests.
\* ------------------------------------------------------------------------
\* The error of a backend whose structured code is server_error.
ServerError == [kind |-> "object", error |-> [code |-> "server_error"]]

\* The handler of anthropic-proxy.ts is serving a streamed request routed
\* to a provider.
Streaming ==
    /\ handler \in {"backend", "responded", "failed", "rejected"}
    /\ body.stream
    /\ ~filtering

\* C16: in a streamed request to openai, the error frame delivered for a
\* server_error of the backend is the rate limit error chunk: no error frame
\* delivered carries the error of the backend.
C16_ServerErrorFrameIsRateLimit ==
    Streaming /\ providerName = "openai" =>
        \A i \in 1..Len(sse) :
            sse[i].type = "error" =>
                \/ sse[i] = RateLimitChunk
                \/ sse[i].error.message # ServerError

\* The backend stream carried an error chunk or a chunk of an unhandled
\* type.
MidStreamDefect ==
    \E i \in 1..Len(consumed) :
        consumed[i].type = "error" \/ unhandled(consumed[i])

\* Nothing more happens for the request.
Settled == handler \in {"responded", "failed", "rejected"} /\ errors = <<>>

\* The last thing delivered is an error response or an error frame.
ErrorDeliveredLast ==
    \/ res.body \in {"error", "provider_error", "rate_limit_error"}
    \/ sse # <<>> /\ sse[Len(sse)].type = "error"

\* C17: once a streamed request whose backend stream had a defect is
\* settled, the client being connected, the response is ended and the last
\* thing delivered is an error frame or an error response.
C17_DefectEndsWithError ==
    Streaming /\ Settled /\ MidStreamDefect /\ client = "connected" =>
        res.ended /\ ErrorDeliveredLast

\* C18: once the client connection of a streamed request is closed, no
\* further chunk of the backend stream is consumed and no message_delta or
\* message_stop is translated.
C18_ClientCloseStopsPipeline ==
    [][Streaming /\ client = "closed" => consumed' = consumed /\ wire' = wire]_vars

\* ------------------------------------------------------------------------
\* Properties of the schema adaptation.
\* ------------------------------------------------------------------------
\* An object schema with a properties map.
IsObjectSchema(schema) ==
    /\ IsObject(schema)
    /\ Has(schema, "type")
    /\ schema.type = "object"
    /\ Has(schema, "properties")

\* properties {p1, p2} with required [p1].
RequiredExample ==
    [type |-> "object",
     properties |-> <<[key |-> "p1", value |-> [type |-> "string"]],
                      [key |-> "p2", value |-> [type |-> "number"]]>>,
     required |-> <<"p1">>]

\* The schema lists exactly the names as required and allows no additional
\* properties.
IsStrict(schema, names) ==
    /\ Has(schema, "required")
    /\ schema.required = names
    /\ Has(schema, "additionalProperties")
    /\ schema.additionalProperties = FALSE

\* C19: for an object schema with a properties map, the schema
\* providerizeSchema("openai", schema) returns has as required list the
\* names of all the properties, in their order, and additionalProperties
\* false, whatever required list the input has; properties {p1, p2} with
\* required [p1] give required [p1, p2].
C19_StrictRequiresAllProperties ==
    /\ adapted.called /\ target = "openai" /\ IsObjectSchema(inputSchema) =>
          IsStrict(adapted.value, Keys(inputSchema.properties))
    /\ IsStrict(providerizeSchema("openai", RequiredExample), <<"p1", "p2">>)

\* A schema of two properties that requires the first has been adapted for
\* openai.
C19_Witness ==
    /\ adapted.called
    /\ target = "openai"
    /\ IsObjectSchema(inputSchema)
    /\ Len(inputSchema.properties) = 2
    /\ Has(inputSchema, "required")
    /\ inputSchema.required = <<"p1">>
    /\ adapted.value.required = <<"p1", "p2">>

\* C20: providerizeSchema(p, providerizeSchema(p, s)) equals
\* providerizeSchema(p, s), for every provider p and schema s.
C20_AdaptationIdempotent ==
    readapted.called => readapted.value = adapted.value

\* A schema that the adaptation changes, below its top level too, has been
\* adapted twice.
C20_Witness ==
    /\ readapted.called
    /\ adapted.value # inputSchema
    /\ IsObjectSchema(inputSchema)
    /\ \E i \in 1..Len(inputSchema.properties) :
          adapted.value.properties[i] # inputSchema.properties[i]

\* C21: providerizeSchema leaves the schema it is handed as it was, the
\* property objects whose format "uri" is stripped in the result included,
\* on the first call and on the call on its own result; and a schema that
\* is not an object schema with a properties map (a primitive, a boolean
\* schema, one without properties, null) is returned as it is.
C21_InputNotMutated ==
    /\ adapted.called => inputSchema = adapted.given
    /\ readapted.called => adapted.value = readapted.given
    /\ adapted.called /\ ~IsObjectSchema(adapted.given) =>
          adapted.value = adapted.given

\* A schema has been adapted whose property loses its format "uri" in the
\* result and keeps it in the schema of the caller.
C21_Witness ==
    /\ adapted.called
    /\ IsObjectSchema(inputSchema)
    /\ \E i \in 1..Len(inputSchema.properties) :
          LET before == inputSchema.properties[i].value
              after == adapted.value.properties[i].value
          IN /\ IsObject(before)
             /\ Has(before, "format")
             /\ ~Has(after, "format")

\* ------------------------------------------------------------------------
\* Properties of the routing and of the responses of the handler.
\* ------------------------------------------------------------------------
\* The handler has dealt with a request whose model names a provider that
\* is not configured.
UnknownBackend ==
    /\ handler \notin {"idle", "received"}
    /\ Len(Split(body.model)) > 1
    /\ providerName \notin providers

\* C22 as stated: a request whose model names a provider that is not
\* configured is answered with a 4xx status, no stage of the translation
\* and no backend having been called and no frame written.
C22_UnknownBackendIsClientError ==
    UnknownBackend =>
        /\ res.ended
        /\ res.statusCode \in 400..499
        /\ pipeline = <<>>
        /\ res.frames = 0
        /\ sse = <<>>

\* The handler has dealt with a request whose model has no "/", no
\* anthropic provider being configured.
Passthrough ==
    /\ handler \notin {"idle", "received"}
    /\ Len(Split(body.model)) = 1
    /\ "anthropic" \notin providers

\* C23 as stated: a request whose model has no "/", with no anthropic
\* provider configured, is sent to api.anthropic.com with its method, its
\* path, its headers but host and the text of its body as they came, no
\* stage of the translation and no provider being called; and the status,
\* the headers and the body of the vendor are what the client gets.
C23_PassthroughForwardsUnchanged ==
    Passthrough =>
        /\ upstream.host = "api.anthropic.com"
        /\ upstream.method = req.method
        /\ upstream.path = req.url
        /\ upstream.headers = Without(req.headers, "host")
        /\ upstream.body = req.body
        /\ pipeline = <<>>
        /\ languageModel = NoLanguageModel
        /\ handler = "relayed" =>
              /\ res.ended
              /\ res.statusCode = upstream.relayed.statusCode
              /\ res.body = upstream.relayed.body

\* The request has ended in a fatal condition: in the catch of the handler
\* (a defect of the conversation, an unknown provider, a missing result, a
\* failed stream) or in onError (an error of the backend).
EndedFatally ==
    \/ handler \in {"failed", "rejected"}
    \/ res.ended /\ res.statusCode = 400

\* How many of the records are of the type.
CountRecords(records, type) ==
    Cardinality({i \in 1..Len(records) : records[i].type = type})

\* C24 as stated: with ANYCLAUDE_DEBUG set, a request that has ended in a
\* fatal condition has handed a record to writeDebugToTempFile that got as
\* far as fs, and so has every error frame delivered to the client.
C24_FatalConditionsAreRecorded ==
    debugEnabled =>
        /\ EndedFatally => debugFiles # <<>>
        /\ CountRecords(sse, "error") <= CountRecords(debugFiles, "Streaming")

\* C25: a request that is not streamed and that the backend has completed
\* with a message is answered with status 200 and one JSON message, of role
\* assistant, of stop_sequence null and of the model of the request, its
\* provider prefix included; no frame is written.
C25_OneMessageEchoesModel ==
    handler = "responded" /\ ~body.stream =>
        /\ res.ended
        /\ res.statusCode = 200
        /\ res.body = "message"
        /\ res.json.type = "message"
        /\ res.json.role = "assistant"
        /\ res.json.stop_sequence = "null"
        /\ res.json.model = body.model
        /\ res.frames = 0
        /\ sse = <<>>

\* The message of a request for openai/a/b has been written, the provider
\* having been called with another model name than the one of the request.
C25_Witness ==
    /\ handler = "responded"
    /\ ~body.stream
    /\ body.model = <<"openai", "/", "a", "/", "b">>
    /\ languageModel.provider = "openai"
    /\ languageModel.model # body.model
    /\ res.json.model = body.model

\* onFinish of a request that is not streamed throws with nothing written
\* to the response: the backend has finished with no message.
MissingResult ==
    /\ handler = "backend"
    /\ ~body.stream
    /\ ~headersSent
    /\ errors = <<>>
    /\ handler' \in {"failed", "returned"}

\* C26 as stated: when the backend of a request that is not streamed
\* finishes with no message, the response is ended with a 5xx status and
\* carries no message.
C26_MissingResultIsServerError ==
    [][MissingResult =>
          /\ res'.ended
          /\ res'.statusCode \in 500..599
          /\ res'.body # "message"]_vars

RECURSIVE indexAlone(_, _)
\* The index of a call of convertToAnthropicStream that has transformed
\* the chunks, and no other call running, idx being its index before.
indexAlone(chunks, idx) ==
    IF chunks = <<>> THEN idx
    ELSE LET t == transform(Head(chunks), idx)
         IN IF t.failed THEN t.index
            ELSE indexAlone(Tail(chunks), t.index)

\* C27: of two requests streamed at the same time, whatever the
\* interleaving of the chunks of their backend streams, each has the wire
\* chunks and the index it has when its chunks are translated with no
\* other request running.
C27_PipelinesIndependent ==
    \A r \in DOMAIN pipelines :
        /\ pipelines[r].wire = convertAll(pipelines[r].consumed, 0)
        /\ pipelines[r].index = indexAlone(pipelines[r].consumed, 0)

\* Both requests have had chunks translated, one of them has completed
\* two blocks and the other none.
C27_Witness ==
    /\ pipelines # <<>>
    /\ pipelines[1].index = 2
    /\ pipelines[2].index = 0
    /\ pipelines[2].wire # <<>>
    /\ Len(pipelines[1].consumed) = MaxPairEvents

\* What a step of onError, of write() or of the relay of the vendor's
\* response does to the response, told from the state before with no
\* regard to ANYCLAUDE_DEBUG and to what fs does.
OnErrorAnswers ==
    res' = IF headersSent THEN res ELSE ProviderError(Head(errors))

WriteAnswers ==
    /\ readable' = readable
    /\ IF res.ended \/ client = "closed"
       THEN res' = res /\ sse' = sse
       ELSE /\ res' = [res EXCEPT !.statusCode = 200, !.frames = @ + 1]
            /\ sse' = Append(sse, written(wire[readPos + 1]))

RelayAnswers ==
    /\ res'.ended
    /\ res'.statusCode = upstream'.relayed.statusCode
    /\ res'.body = upstream'.relayed.body
    /\ sse' = sse

\* C28: what onError, write() and the relay of the vendor's response send
\* to the client is the same whether writeDebugToTempFile is disabled,
\* writes its files or fails in fs.
C28_DiagnosticsNeverChangeResponse ==
    [][/\ errors # <<>> /\ errors' = Tail(errors) => OnErrorAnswers
       /\ readPos' = readPos + 1 => WriteAnswers
       /\ handler = "forwarded" /\ handler' = "relayed" => RelayAnswers]_vars

\* With ANYCLAUDE_DEBUG set, fs has failed for the record of an error chunk
\* of the stream, and the client has the error frame.
C28_Witness ==
    /\ debugEnabled
    /\ \E i \in 1..Len(debugFiles) :
          debugFiles[i].type = "Streaming" /\ ~debugFiles[i].written
    /\ sse # <<>>
    /\ sse[Len(sse)].type = "error"

\* The handler has dealt with a request whose model has no "/", an
\* anthropic provider being configured.
DefaultBackend ==
    /\ handler \notin {"idle", "received"}
    /\ Len(Split(body.model)) = 1
    /\ "anthropic" \in providers

\* C29 as stated: a request whose model has no "/", with an anthropic
\* provider configured, is translated and handed to the anthropic provider
\* with the whole identifier as model, and its response is ended in the
\* end.
C29_DefaultBackendServes ==
    /\ [](DefaultBackend =>
             /\ languageModel = [provider |-> "anthropic", model |-> body.model]
             /\ pipeline # <<>>
             /\ pipeline[Len(pipeline)] = "streamText")
    /\ (DefaultBackend ~> res.ended)

\* C30 as stated: the provider of a request is the part of its model
\* identifier before the first "/", and the model that
\* provider.languageModel is called with is all that follows the first
\* "/": a/b for p/a/b.
C30_ModelIsRestOfIdentifier ==
    languageModel # NoLanguageModel =>
        /\ languageModel.provider = Head(body.model)
        /\ languageModel.model = SubSeq(body.model, 3, Len(body.model))

\* ------------------------------------------------------------------------
\* Properties of the wire events of one generation event.
\* ------------------------------------------------------------------------
\* The call of transform() of this step was made with a chunk of the type.
Transformed(type) ==
    /\ Len(consumed') = Len(consumed) + 1
    /\ consumed'[Len(consumed')].type = type

\* The chunk the call of transform() of this step was made with.
Arrived == consumed'[Len(consumed')]

\* The wire events the step has added.
Added == SubSeq(wire', Len(wire) + 1, Len(wire'))

\* C31: a tool-call event produces exactly two wire events, a
\* content_block_start carrying the id, name and input of the call and then
\* a content_block_stop, both at the index of before, behind the wire
\* events of before and with nothing between them; the index is then one
\* more.
C31_AtomicToolCallIsOneClosedBlock ==
    [][Transformed("tool-call") =>
          /\ Len(wire') = Len(wire) + 2
          /\ SubSeq(wire', 1, Len(wire)) = wire
          /\ Added[1] = [type |-> "content_block_start", index |-> index,
                         content_block |-> [type |-> "tool_use",
                                            id |-> Arrived.toolCallId,
                                            name |-> Arrived.toolName,
                                            input |-> Arrived.input]]
          /\ Added[2] = [type |-> "content_block_stop", index |-> index]
          /\ index' = index + 1]_vars

\* A tool-call has been translated behind a completed block: its two wire
\* events carry index 1.
C31_Witness ==
    /\ Len(consumed) = 2
    /\ consumed[1].type = "text-end"
    /\ consumed[2].type = "tool-call"
    /\ Len(wire) = 3
    /\ wire[2].type = "content_block_start" /\ wire[2].index = 1
    /\ wire[3].type = "content_block_stop" /\ wire[3].index = 1
    /\ index = 2

\* The generation events that complete a content block.
BlockEnds == {"text-end", "tool-input-end", "tool-call"}

\* C32: the index changes only so: text-end, tool-input-end and tool-call
\* make it one more, finish makes it 0, and every other step leaves it as
\* it was, whatever chunk arrived; a chunk of an ignored type adds no wire
\* event.
C32_IndexChangesOnlyAtBlockEndAndFinish ==
    [][/\ (\E type \in BlockEnds : Transformed(type)) => index' = index + 1
       /\ Transformed("finish") => index' = 0
       /\ ~(\E type \in BlockEnds \cup {"finish"} : Transformed(type))
            => index' = index
       /\ (\E type \in IgnoredTypes : Transformed(type)) => wire' = wire]_vars

\* A block was completed, a delta and an ignored chunk arrived with the
\* index at 1.
C32_Witness ==
    /\ Len(consumed) = 3
    /\ consumed[1].type = "tool-input-end"
    /\ consumed[2].type = "text-delta"
    /\ consumed[3].type = "reasoning-delta"
    /\ Len(wire) = 2
    /\ wire[2].index = 1
    /\ index = 1

\* The number of chunks of a type among chunks.
CountType(chunks, type) ==
    Cardinality({i \in 1..Len(chunks) : chunks[i].type = type})

\* C33: every error event gives exactly one error wire event, and what the
\* caller is sent in it is a message string only, the message of the error
\* or the value as text, never the error object of the backend.
C33_ErrorPayloadIsMessageString ==
    /\ CountType(wire, "error") = CountType(consumed, "error")
    /\ \A i \in 1..Len(wire) :
           wire[i].type = "error" => wire[i].error.message.kind = "string"

\* ------------------------------------------------------------------------
\* Properties of the formats of an adapted schema.
\* ------------------------------------------------------------------------
\* The schema carries format "uri" itself.
CarriesUri(schema) ==
    IsObject(schema) /\ Has(schema, "format") /\ schema.format = "uri"

\* The schemas right below a schema: the values of its properties and its
\* items, one schema or a tuple of them.
Below(schema) ==
    IF ~IsObject(schema) THEN {}
    ELSE (IF Has(schema, "properties")
          THEN {schema.properties[i].value : i \in 1..Len(schema.properties)}
          ELSE {})
         \cup (IF ~Has(schema, "items") THEN {}
               ELSE IF Has(schema.items, "tuple")
                    THEN {schema.items.tuple[i] : i \in 1..Len(schema.items.tuple)}
                    ELSE {schema.items})

RECURSIVE UriBelow(_)
\* A schema below the schema, at any depth, carries format "uri".
UriBelow(schema) ==
    \E s \in Below(schema) : CarriesUri(s) \/ UriBelow(s)

RECURSIVE FormatsOf(_)
\* The format annotations of a schema and of the schemas below it.
FormatsOf(schema) ==
    IF ~IsObject(schema) THEN <<>>
    ELSE <<IF Has(schema, "format") THEN schema.format ELSE "none",
           IF Has(schema, "properties")
           THEN [i \in 1..Len(schema.properties) |->
                    FormatsOf(schema.properties[i].value)]
           ELSE <<>>,
           IF ~Has(schema, "items") THEN <<>>
           ELSE IF Has(schema.items, "tuple")
                THEN [i \in 1..Len(schema.items.tuple) |->
                         FormatsOf(schema.items.tuple[i])]
                ELSE <<FormatsOf(schema.items)>>>>

\* C34: for openai and google, the schema returned for an object schema
\* with a properties map has no format "uri" on a property at any depth,
\* the properties of nested objects and the item schemas of arrays
\* included; for every other provider the formats are those of the input.
C34_NoUriFormatAtAnyDepth ==
    adapted.called =>
        /\ target \in {"openai", "google"} /\ IsObjectSchema(adapted.given)
              => ~UriBelow(adapted.value)
        /\ target \notin {"openai", "google"}
              => FormatsOf(adapted.value) = FormatsOf(adapted.given)

\* ------------------------------------------------------------------------
\* Properties of the writes of a streamed response.
\* ------------------------------------------------------------------------
\* The step is onError of a streamed request, which calls res.writeHead and
\* res.end.
OnErrorWritesHead ==
    body.stream /\ errors # <<>> /\ errors' = Tail(errors)

\* The step is write() of the SSE writer, which calls res.write with a
\* frame.
WriterWritesFrame ==
    body.stream /\ handler = "backend" /\ readPos' = readPos + 1

\* C35: for a streamed request, however onError and the SSE writer
\* interleave, the status and headers of the response are written once at
\* most, and no frame is written to a response that has been ended.
C35_HeadOnceAndNoWriteAfterEnd ==
    [][/\ OnErrorWritesHead => ~headersSent
       /\ WriterWritesFrame => ~res.ended]_vars

\* ------------------------------------------------------------------------
\* Properties of the content blocks of a message.
\* ------------------------------------------------------------------------
\* Wire event i opens a tool_use block.
StartsToolUse(chunks, i) ==
    /\ chunks[i].type = "content_block_start"
    /\ chunks[i].content_block.type = "tool_use"

\* Wire events i and j belong to one message: no message starts or stops
\* between them.
SameMessage(chunks, i, j) ==
    \A k \in i..j : chunks[k].type \notin {"message_start", "message_stop"}

\* C36: within one message a tool-call id is carried by one
\* content_block_start at most, also when the backend stream has the
\* tool-input-start/delta/end of a call and the tool-call of the same id.
C36_ToolCallIdStartsOneBlock ==
    \A i \in 1..Len(wire) : \A j \in 1..Len(wire) :
        /\ i < j
        /\ StartsToolUse(wire, i)
        /\ StartsToolUse(wire, j)
        /\ SameMessage(wire, i, j)
        => wire[i].content_block.id # wire[j].content_block.id

\* Every content_block_delta and content_block_stop follows a
\* content_block_start with no other start or stop between them, and has
\* its index.
BlocksCarryOpenIndex(chunks) ==
    \A i \in 1..Len(chunks) :
        chunks[i].type \in {"content_block_delta", "content_block_stop"} =>
            \E s \in 1..(i - 1) :
                /\ chunks[s].type = "content_block_start"
                /\ \A k \in (s + 1)..(i - 1) :
                       chunks[k].type \notin {"content_block_start",
                                              "content_block_stop"}
                /\ chunks[i].index = chunks[s].index

\* A content_block_stop lies between every two content_block_start.
BlocksStoppedBeforeNext(chunks) ==
    \A s \in 1..Len(chunks) : \A t \in 1..Len(chunks) :
        /\ s < t
        /\ chunks[s].type = "content_block_start"
        /\ chunks[t].type = "content_block_start"
        => \E k \in (s + 1)..(t - 1) : chunks[k].type = "content_block_stop"

\* Every content_block_start carries the number of the starts before it in
\* its message, the message being opened by the last message_start.
StartsCountFromZero(chunks) ==
    \A j \in 1..Len(chunks) :
        chunks[j].type = "content_block_start" =>
            chunks[j].index =
                Cardinality({s \in 1..(j - 1) :
                                /\ chunks[s].type = "content_block_start"
                                /\ \A k \in s..j :
                                       chunks[k].type # "message_start"})

\* C37: for a backend stream whose content units follow one another, the
\* wire stream is well-formed: a delta and a stop carry the index of the
\* block that is open, every block that was started is stopped once, and
\* the starts of a message carry 0, 1, 2, ... in their order.
C37_WireStreamWellFormed ==
    WellFormed(consumed) =>
        /\ BlocksCarryOpenIndex(wire)
        /\ BlocksStoppedBeforeNext(wire)
        /\ StartsCountFromZero(wire)

\* ------------------------------------------------------------------------
\* Properties of the messages of a normalized conversation.
\* ------------------------------------------------------------------------
\* C38: filterDuplicateToolCalls returns as many messages as it is given,
\* in their order and with their roles, and a message of the result has an
\* empty content array only if its content was empty in the input.
C38_MessagesKeptAndNeverEmptied ==
    HasReturned =>
        /\ Len(normalized.value) = Len(messages)
        /\ \A m \in 1..Len(messages) :
              /\ normalized.value[m].role = messages[m].role
              /\ normalized.value[m].isArray /\ normalized.value[m].content = <<>>
                    => messages[m].isArray /\ messages[m].content = <<>>

====
